---- MODULE Spec2Model ----
(***************************************************************************)
(* Model of scripts/remove_watermark.py: the content-stream rewriting of   *)
(* remove_watermark_pymupdf / process_form_xobject (regular-expression     *)
(* passes over a decoded stream) and the page loop, save and verification  *)
(* of remove_watermark_pymupdf.                                            *)
(*                                                                         *)
(* Text (a Python str) is a sequence of code points, a byte buffer a       *)
(* sequence of integers 0..255.                                            *)
(***************************************************************************)
EXTENDS Integers, Sequences, FiniteSets, TLC

(***************************************************************************)
(* Characters.  Ord maps the one-character strings used to write streams   *)
(* in this module to their code points.                                    *)
(***************************************************************************)
Ord ==
  (" " :> 32) @@ ("\"" :> 34) @@ ("'" :> 39) @@ ("(" :> 40) @@ (")" :> 41) @@
  ("," :> 44) @@ ("-" :> 45) @@ ("1" :> 49) @@ ("2" :> 50) @@
  ("/" :> 47) @@ ("0" :> 48) @@ ("3" :> 51) @@ ("4" :> 52) @@ ("5" :> 53) @@ ("6" :> 54) @@
  ("7" :> 55) @@ ("<" :> 60) @@ (">" :> 62) @@ ("A" :> 65) @@ ("B" :> 66) @@
  ("C" :> 67) @@ ("D" :> 68) @@ ("E" :> 69) @@ ("F" :> 70) @@ ("H" :> 72) @@
  ("J" :> 74) @@ ("S" :> 83) @@ ("T" :> 84) @@ ("[" :> 91) @@ ("\\" :> 92) @@
  ("]" :> 93) @@ ("_" :> 95) @@ ("a" :> 97) @@ ("b" :> 98) @@ ("c" :> 99) @@
  ("d" :> 100) @@ ("e" :> 101) @@ ("f" :> 102) @@ ("h" :> 104) @@
  ("j" :> 106) @@ ("n" :> 110) @@ ("r" :> 114) @@ ("s" :> 115) @@
  ("t" :> 116) @@ ("x" :> 120)

Ch(c) == Ord[c]

\* The text written as a tuple of one-character strings.
Txt(cs) == [i \in 1..Len(cs) |-> Ord[cs[i]]]

RECURSIVE Flatten(_)
Flatten(ss) == IF ss = <<>> THEN <<>> ELSE Head(ss) \o Flatten(Tail(ss))

(***************************************************************************)
(* str.lower(), `in`, str.replace, ' '.join                                *)
(***************************************************************************)
\* The non-ASCII code points of the model (U+00E9, U+0101) are lower-case
\* letters, which lower() leaves alone.
LowerChar(c) == IF c \in 65..90 THEN c + 32 ELSE c

Lower(s) == [i \in 1..Len(s) |-> LowerChar(s[i])]

\* needle in hay
Contains(hay, needle) ==
  \E i \in 0..(Len(hay) - Len(needle)) :
     \A k \in 1..Len(needle) : hay[i + k] = needle[k]

\* any(wm_lower in text for wm_lower in watermark_lowers)
AnyNeedleIn(text, needles) ==
  \E n \in 1..Len(needles) : Contains(text, needles[n])

StartsAt(s, i, pat) ==
  /\ i + Len(pat) - 1 <= Len(s)
  /\ \A k \in 1..Len(pat) : s[i + k - 1] = pat[k]

RECURSIVE ReplaceFrom(_, _, _, _)
ReplaceFrom(s, i, pat, rep) ==
  IF i > Len(s) THEN <<>>
  ELSE IF StartsAt(s, i, pat) THEN rep \o ReplaceFrom(s, i + Len(pat), pat, rep)
  ELSE <<s[i]>> \o ReplaceFrom(s, i + 1, pat, rep)

\* s.replace(pat, rep), pat non-empty
Replace(s, pat, rep) == ReplaceFrom(s, 1, pat, rep)

\* The texts joined with nothing between them.
RECURSIVE JoinSpace_Glued(_)
JoinSpace_Glued(ts) ==
  IF ts = <<>> THEN <<>>
  ELSE IF Len(ts) = 1 THEN ts[1]
  ELSE ts[1] \o JoinSpace_Glued(Tail(ts))

RECURSIVE JoinSpace(_)
JoinSpace(ts) ==
  IF ts = <<>> THEN <<>>
  ELSE IF Len(ts) = 1 THEN ts[1]
  ELSE ts[1] \o <<32>> \o JoinSpace(Tail(ts))

(***************************************************************************)
(* bytes.decode('utf-8', errors='ignore') and                              *)
(* str.encode('latin-1', errors='ignore')                                  *)
(***************************************************************************)
IsCont(b) == b \in 128..191

\* Length of the well-formed UTF-8 sequence that starts at bytes[i], 0 if none.
Utf8SeqLen(bytes, i) ==
  LET n  == Len(bytes)
      b  == bytes[i]
      b2 == bytes[i + 1]
      b3 == bytes[i + 2]
      b4 == bytes[i + 3]
  IN  IF b < 128 THEN 1
      ELSE IF b \in 194..223 /\ i + 1 <= n /\ IsCont(b2) THEN 2
      ELSE IF /\ b \in 224..239 /\ i + 2 <= n /\ IsCont(b2) /\ IsCont(b3)
              /\ (b = 224 => b2 >= 160) /\ (b = 237 => b2 <= 159) THEN 3
      ELSE IF /\ b \in 240..244 /\ i + 3 <= n
              /\ IsCont(b2) /\ IsCont(b3) /\ IsCont(b4)
              /\ (b = 240 => b2 >= 144) /\ (b = 244 => b2 <= 143) THEN 4
      ELSE 0

Utf8CodePoint(bytes, i, len) ==
  CASE len = 1 -> bytes[i]
    [] len = 2 -> (bytes[i] - 192) * 64 + (bytes[i + 1] - 128)
    [] len = 3 -> (bytes[i] - 224) * 4096 + (bytes[i + 1] - 128) * 64
                  + (bytes[i + 2] - 128)
    [] len = 4 -> (bytes[i] - 240) * 262144 + (bytes[i + 1] - 128) * 4096
                  + (bytes[i + 2] - 128) * 64 + (bytes[i + 3] - 128)

RECURSIVE Utf8DecodeFrom(_, _)
Utf8DecodeFrom(bytes, i) ==
  IF i > Len(bytes) THEN <<>>
  ELSE LET len == Utf8SeqLen(bytes, i)
       IN  IF len = 0 THEN Utf8DecodeFrom(bytes, i + 1)
           ELSE <<Utf8CodePoint(bytes, i, len)>> \o Utf8DecodeFrom(bytes, i + len)

\* bytes.decode('utf-8', errors='ignore'): a byte that starts no well-formed
\* sequence is dropped; the call never raises.
Utf8DecodeIgnore(bytes) == Utf8DecodeFrom(bytes, 1)

\* text.encode('latin-1', errors='ignore'): a code point above 255 is dropped.
Latin1EncodeIgnore(text) == SelectSeq(text, LAMBDA c : c <= 255)

(***************************************************************************)
(* Character classes of Python's re for str patterns                       *)
(***************************************************************************)
\* \s
IsSpace(c) == c \in (9..13) \cup (28..32) \cup {133, 160}

\* \w
IsWord(c) ==
  c \in (48..57) \cup (65..90) \cup (97..122) \cup {95}
        \cup {170, 178, 179, 181, 185, 186, 188, 189, 190}
        \cup (192..214) \cup (216..246) \cup (248..591)

IsHexDigit(c) == c \in (48..57) \cup (65..70) \cup (97..102)

HexVal(c) == IF c \in 48..57 THEN c - 48
             ELSE IF c \in 65..70 THEN c - 55 ELSE c - 87

\* \b between s[i-1] and s[i] (i = Len(s)+1: the end of the string)
WordBoundaryBefore(s, i) ==
  LET before == i - 1 >= 1 /\ i - 1 <= Len(s) /\ IsWord(s[i - 1])
      after  == i >= 1 /\ i <= Len(s) /\ IsWord(s[i])
  IN  before # after

\* index of the first c at or after i, 0 if none
RECURSIVE IndexOf(_, _, _)
IndexOf(s, i, c) ==
  IF i > Len(s) THEN 0
  ELSE IF s[i] = c THEN i
  ELSE IndexOf(s, i + 1, c)

\* index of the first occurrence of pat at or after i, 0 if none
RECURSIVE Find(_, _, _)
Find(s, i, pat) ==
  IF i + Len(pat) - 1 > Len(s) THEN 0
  ELSE IF StartsAt(s, i, pat) THEN i
  ELSE Find(s, i + 1, pat)

\* first index at or after i that holds no whitespace (Len(s)+1 at the end)
RECURSIVE SkipSpace(_, _)
SkipSpace(s, i) ==
  IF i <= Len(s) /\ IsSpace(s[i]) THEN SkipSpace(s, i + 1) ELSE i

\* first index at or after i that holds no hex digit
RECURSIVE SkipHex(_, _)
SkipHex(s, i) ==
  IF i <= Len(s) /\ IsHexDigit(s[i]) THEN SkipHex(s, i + 1) ELSE i

Slice(s, from, to) == IF from > to THEN <<>> ELSE SubSeq(s, from, to)

(***************************************************************************)
(* extract_all_text_from_stream                                            *)
(***************************************************************************)
\* '()nrtbf': the escaped characters the scanner keeps (as themselves)
EscKept == {Ch("("), Ch(")"), Ch("n"), Ch("r"), Ch("t"), Ch("b"), Ch("f")}

\* The inner while loop, from index j with the content collected so far:
\* closed is FALSE when the loop ends without a break (the while's else).
RECURSIVE ScanLiteral(_, _, _)
ScanLiteral(stream, j, content) ==
  IF j > Len(stream) THEN [closed |-> FALSE, content |-> content, next |-> j]
  ELSE IF stream[j] = Ch("\\") /\ j + 1 <= Len(stream)
       THEN ScanLiteral(stream, j + 2,
                        IF stream[j + 1] \in EscKept
                        THEN Append(content, stream[j + 1]) ELSE content)
  ELSE IF stream[j] = Ch(")")
       THEN [closed |-> TRUE, content |-> content, next |-> j + 1]
  ELSE ScanLiteral(stream, j + 1, Append(content, stream[j]))

\* The outer while loop from index i: the contents of the literal strings.
RECURSIVE LiteralStrings(_, _)
LiteralStrings(stream, i) ==
  IF i > Len(stream) THEN <<>>
  ELSE IF stream[i] = Ch("(")
       THEN LET r == ScanLiteral(stream, i + 1, <<>>)
            IN  IF r.closed
                THEN <<r.content>> \o LiteralStrings(stream, r.next)
                ELSE LiteralStrings(stream, i + 1)
  ELSE LiteralStrings(stream, i + 1)

\* bytes.fromhex of an even number of hex digits
RECURSIVE FromHex(_)
FromHex(h) ==
  IF Len(h) < 2 THEN <<>>
  ELSE <<HexVal(h[1]) * 16 + HexVal(h[2])>> \o FromHex(Tail(Tail(h)))

\* re.findall(r'<([0-9A-Fa-f]+)>', stream) from index i
RECURSIVE HexMatches(_, _)
HexMatches(stream, i) ==
  IF i > Len(stream) THEN <<>>
  ELSE IF stream[i] = Ch("<")
       THEN LET e == SkipHex(stream, i + 1)
            IN  IF e > i + 1 /\ e <= Len(stream) /\ stream[e] = Ch(">")
                THEN <<Slice(stream, i + 1, e - 1)>> \o HexMatches(stream, e + 1)
                ELSE HexMatches(stream, i + 1)
  ELSE HexMatches(stream, i + 1)

\* The decoded hex strings: those with an odd number of digits are skipped.
RECURSIVE HexTexts(_)
HexTexts(hs) ==
  IF hs = <<>> THEN <<>>
  ELSE IF Len(Head(hs)) % 2 = 0
       THEN <<Utf8DecodeIgnore(FromHex(Head(hs)))>> \o HexTexts(Tail(hs))
       ELSE HexTexts(Tail(hs))

extract_all_text_from_stream(stream) ==
  Lower(JoinSpace(LiteralStrings(stream, 1) \o HexTexts(HexMatches(stream, 1))))

(***************************************************************************)
(* The removal passes (re.sub with a function as replacement)              *)
(***************************************************************************)
\* The block searched as it stands, neither extracted nor lower-cased.
should_remove_text_object_raw(block, watermark_lowers) ==
  AnyNeedleIn(block, watermark_lowers)

should_remove_text_object(block, watermark_lowers) ==
  AnyNeedleIn(extract_all_text_from_stream(block), watermark_lowers)

should_remove_inline(text_str, watermark_lowers) ==
  LET bs == Ch("\\")
      t1 == Replace(text_str, <<bs, bs, Ch("(")>>, <<Ch("(")>>)
      t2 == Replace(t1, <<bs, bs, Ch(")")>>, <<Ch(")")>>)
      t3 == Replace(t2, <<bs, bs>>, <<bs>>)
  IN  AnyNeedleIn(Lower(t3), watermark_lowers)

should_remove_tj_array(array_content, watermark_lowers) ==
  AnyNeedleIn(extract_all_text_from_stream(array_content), watermark_lowers)

\* re.sub(r'BT(.*?)ET', ..., flags=re.DOTALL) from index i
RECURSIVE SubTextObjectsFrom(_, _, _)
SubTextObjectsFrom(s, i, wl) ==
  IF i > Len(s) THEN <<>>
  ELSE LET e == IF StartsAt(s, i, Txt(<<"B", "T">>))
                THEN Find(s, i + 2, Txt(<<"E", "T">>)) ELSE 0
       IN  IF e = 0 THEN <<s[i]>> \o SubTextObjectsFrom(s, i + 1, wl)
           ELSE (IF should_remove_text_object(Slice(s, i + 2, e - 1), wl)
                 THEN <<>> ELSE Slice(s, i, e + 1))
                \o SubTextObjectsFrom(s, e + 2, wl)

SubTextObjects(s, wl) == SubTextObjectsFrom(s, 1, wl)

\* The matches of r'BT(.*?)ET' that re.sub visits from index i: where the BT
\* of each begins and where its ET begins.
RECURSIVE TextObjectMatchesFrom(_, _)
TextObjectMatchesFrom(s, i) ==
  IF i > Len(s) THEN <<>>
  ELSE LET e == IF StartsAt(s, i, Txt(<<"B", "T">>))
                THEN Find(s, i + 2, Txt(<<"E", "T">>)) ELSE 0
       IN  IF e = 0 THEN TextObjectMatchesFrom(s, i + 1)
           ELSE <<[bt |-> i, et |-> e]>> \o TextObjectMatchesFrom(s, e + 2)

\* Where the match of  open ([^close]*) close \s+ op \b  that starts at i
\* ends (the index after it) and where its group ends; 0 if there is none.
DelimitedOpMatch(s, i, open, close, op) ==
  IF s[i] # open THEN [end |-> 0, close |-> 0]
  ELSE LET c == IndexOf(s, i + 1, close)
           k == SkipSpace(s, c + 1)
       IN  IF /\ c # 0
              /\ k > c + 1
              /\ StartsAt(s, k, op)
              /\ WordBoundaryBefore(s, k + Len(op))
           THEN [end |-> k + Len(op), close |-> c]
           ELSE [end |-> 0, close |-> 0]

\* re.sub(r'\(([^)]*)\)\s+OP\b', ...) from index i, OP one of Tj, ', "
RECURSIVE SubInlineFrom(_, _, _, _)
SubInlineFrom(s, i, op, wl) ==
  IF i > Len(s) THEN <<>>
  ELSE LET m == DelimitedOpMatch(s, i, Ch("("), Ch(")"), op)
       IN  IF m.end = 0 THEN <<s[i]>> \o SubInlineFrom(s, i + 1, op, wl)
           ELSE (IF should_remove_inline(Slice(s, i + 1, m.close - 1), wl)
                 THEN <<>> ELSE Slice(s, i, m.end - 1))
                \o SubInlineFrom(s, m.end, op, wl)

SubInline(s, op, wl) == SubInlineFrom(s, 1, op, wl)

\* re.sub(r'\[([^\]]*)\]\s+TJ\b', ...) from index i
RECURSIVE SubTJArrayFrom(_, _, _)
SubTJArrayFrom(s, i, wl) ==
  IF i > Len(s) THEN <<>>
  ELSE LET m == DelimitedOpMatch(s, i, Ch("["), Ch("]"), Txt(<<"T", "J">>))
       IN  IF m.end = 0 THEN <<s[i]>> \o SubTJArrayFrom(s, i + 1, wl)
           ELSE (IF should_remove_tj_array(Slice(s, i + 1, m.close - 1), wl)
                 THEN <<>> ELSE Slice(s, i, m.end - 1))
                \o SubTJArrayFrom(s, m.end, wl)

SubTJArray(s, wl) == SubTJArrayFrom(s, 1, wl)

\* Pattern 2: (text) Tj, [array] TJ, (text) ' and (text) "
InlineOperators(s, wl) ==
  LET p2 == SubInline(s, Txt(<<"T", "j">>), wl)
      p3 == SubTJArray(p2, wl)
      p4 == SubInline(p3, Txt(<<"'">>), wl)
  IN  SubInline(p4, Txt(<<"\"">>), wl)

\* The five substitutions in the order of the code.
RewriteStream(stream_text, wl) ==
  InlineOperators(SubTextObjects(stream_text, wl), wl)

(***************************************************************************)
(* Input buffers.  A buffer is the concatenation of at most MaxTokens      *)
(* pieces of one family: text-showing operators with literal strings      *)
(* (OperatorPieces), lexical fragments (LexicalPieces), bytes (BytePieces) *)
(* or operators with array and hex operands (ArrayPieces).                 *)
(***************************************************************************)
MaxTokens == 4
MaxBytePieces == 3

OperatorPieces == <<
  Txt(<<"B","T"," ","/","F"," ","T","f"," ">>),
  Txt(<<"E","T">>),
  Txt(<<"(","H",")"," ","T","j"," ">>),
  Txt(<<"(","S","D",")"," ","T","j"," ">>),
  Txt(<<"(","S","E","T",")"," ","T","j"," ">>),
  Txt(<<"(","A"," ","(","S","D",")"," ","C",")"," ","T","j"," ">>) >>

LexicalPieces == <<
  Txt(<<"(">>), Txt(<<")">>), Txt(<<"\\">>), Txt(<<"S","D">>),
  Txt(<<" ","T","j"," ">>), Txt(<<"n">>) >>

\* 0xE9 alone is not UTF-8; 0xC3 0xA9 is U+00E9; 0xC4 0x81 is U+0101.
BytePieces == <<
  Txt(<<"(","S","D",")"," ","T","j"," ">>), Txt(<<"H">>),
  <<233>>, <<195>>, <<169>>, <<196, 129>> >>

\* <7364> is the hex string of sd.
ArrayPieces == <<
  Txt(<<"B","T"," ","/","F"," ","T","f"," ">>),
  Txt(<<"E","T">>),
  Txt(<<"[","(","S",")"," ","5"," ","(","D",")","]"," ","T","J"," ">>),
  Txt(<<"<","7","3","6","4",">"," ","T","j"," ">>) >>

\* Operators ' and " with nothing after them, and a lone opening parenthesis.
QuotePieces == <<
  Txt(<<"B","T"," ">>),
  Txt(<<"E","T">>),
  Txt(<<"(">>),
  Txt(<<"(","S","D",")"," ","T","j"," ">>),
  Txt(<<"(","S","D",")"," ","'">>),
  Txt(<<"(","S","D",")"," ","\"">>) >>

\* <73640> has an odd number of digits (sd and a half byte), <73 64> is sd
\* with a space between the digits.
HexPieces == <<
  Txt(<<"B","T"," ">>),
  Txt(<<"E","T">>),
  Txt(<<"<","7","3","6","4","0",">"," ","T","j"," ">>),
  Txt(<<"<","7","3"," ","6","4",">"," ","T","j"," ">>) >>

MaxShortTokens == 3

Families == <<OperatorPieces, LexicalPieces, BytePieces, ArrayPieces,
              QuotePieces, HexPieces>>

FamilyBound(f) ==
  IF f = 3 THEN MaxBytePieces ELSE IF f >= 5 THEN MaxShortTokens ELSE MaxTokens

SeqsUpTo(S, n) == UNION {[1..k -> S] : k \in 0..n}

\* The bytes of the buffer made of the pieces ids of family f.
BufferOf(f, ids) == Flatten([i \in 1..Len(ids) |-> Families[f][ids[i]]])

\* The needle lists (watermark_lowers) of the model.
NeedleLists == {
  <<Txt(<<"s","d">>), Txt(<<"s","e","t">>)>>,
  <<Txt(<<"s"," ","d">>), Txt(<<"h"," ","s","d">>)>> }

(***************************************************************************)
(* Documents.  A document has NPages pages, each with one content stream   *)
(* (as page.read_contents() returns it) and a list of annotations, and     *)
(* NForms form XObjects (xrefs 1..NForms).  The watermark is stamped on    *)
(* every page alike: the pages of a document start with the same content   *)
(* stream and the same annotations; what differs from page to page is      *)
(* whether the page's extracted text holds a needle, whether its stream    *)
(* can be read and which calls raise.                                      *)
(***************************************************************************)
NPages == 2
NForms == 1
MaxFaults == 1

\* BT /F Tf (SD) Tj ET
TextObjectStream == BufferOf(1, <<1, 4, 2>>)
\* (H) Tj
PlainStream == BufferOf(1, <<3>>)
\* (SD) Tj
InlineStream == BufferOf(1, <<4>>)
\* BT /F Tf (SET) Tj (A (SD) C) Tj ET
NestedStream == BufferOf(1, <<1, 5, 6, 2>>)

PageStreams == {TextObjectStream, PlainStream, <<>>}
FormStreams == {InlineStream, NestedStream}

WatermarkAnnot == [content |-> Txt(<<"S","e","t">>), title |-> <<>>]
NoteAnnot == [content |-> Txt(<<"H">>), title |-> Txt(<<"A">>)]
AnnotLists == {<<>>, <<NoteAnnot, WatermarkAnnot>>}

\* watermark_strings as given by the caller (None is the empty list)
WatermarkInputs == {<<>>, <<Txt(<<"S","D">>), Txt(<<"s","e","t">>)>>}

Pages == 1..NPages
Xrefs == 1..NForms
StreamIds == {<<"page", p>> : p \in Pages} \cup {<<"form", x>> : x \in Xrefs}

(***************************************************************************)
(* State                                                                   *)
(***************************************************************************)
VARIABLES
  family,            \* the family of the input buffer
  tokens,            \* the pieces of the input buffer
  watermark_lowers,  \* the lower-cased needles
  stream_bytes,      \* page.read_contents() / doc.xref_stream(xref_num)
  original_stream,   \* the decoded stream
  new_stream_text,   \* the stream being rewritten
  new_stream_bytes,  \* the bytes given to doc.update_stream
  step,              \* where the rewriting of the stream stands
  run,               \* 1: the first run, 2: a run on the first run's output
  pc,                \* where remove_watermark_pymupdf stands
  page_num,          \* the page of the page loop (1-based)
  xref_num,          \* the xref of the XObject loop
  watermark_list,    \* watermark_strings, or the empty list
  contents,          \* the content stream of each page
  forms,             \* the stream of each form XObject
  unreadable,        \* the streams whose read raises
  annots,            \* the annotations of each page
  page_has_text,     \* whether page.get_text() of the input holds a needle
  events,            \* the calls that changed the document, the failed reads
                     \* and the messages printed, in order
  result,            \* the value returned: "none" until the return
  faults,            \* the number of steps in which a call raised so far
  verify_text,       \* page.get_text() of each page of the saved document
  remaining_watermarks, \* the (page, needle) pairs the verification found
  exit_status,       \* the exit status of the command, -1 while it runs
  extract,           \* the state of extract_pages.py
  detect,            \* the state of detect_watermark_text
  multi,             \* a page with several content streams being processed
  toc,               \* the state of add_bookmark.py
  pypdf,             \* the state of remove_watermark_pypdf
  scan               \* the state of the literal-string scanner

streamVars == <<family, tokens, watermark_lowers, stream_bytes, original_stream,
                new_stream_text, new_stream_bytes, step, run>>

verifyVars == <<verify_text, remaining_watermarks>>

mainVars == <<exit_status>>

docVars == <<pc, page_num, xref_num, watermark_list, contents, forms,
             unreadable, annots, page_has_text, events, result, faults,
             verifyVars, mainVars>>

\* The state of the other programs of the repository
moreVars == <<multi, toc, pypdf, scan>>

toolVars == <<extract, detect, moreVars>>

vars == <<streamVars, docVars, toolVars>>

\* The state of a program that is not running
Idle == [pc |-> "idle"]

MoreIdle == multi = Idle /\ toc = Idle /\ pypdf = Idle /\ scan = Idle

MaxRuns == 2

(***************************************************************************)
(* The rewriting of one stream (lines 342-571), run on a buffer            *)
(***************************************************************************)
StreamInit ==
  /\ family \in 1..Len(Families)
  /\ tokens \in SeqsUpTo(1..Len(Families[family]), FamilyBound(family))
  /\ watermark_lowers \in NeedleLists
  /\ stream_bytes = BufferOf(family, tokens)
  /\ original_stream = <<>>
  /\ new_stream_text = <<>>
  /\ new_stream_bytes = <<>>
  /\ step = "read"
  /\ run = 1
  /\ pc = "idle"
  /\ page_num = 0
  /\ xref_num = 0
  /\ watermark_list = <<>>
  /\ contents = <<>>
  /\ forms = <<>>
  /\ unreadable = {}
  /\ annots = <<>>
  /\ page_has_text = <<>>
  /\ events = <<>>
  /\ result = "none"
  /\ faults = 0
  /\ verify_text = <<>>
  /\ remaining_watermarks = <<>>
  /\ exit_status = -1
  /\ extract = Idle
  /\ detect = Idle
  /\ MoreIdle

\* stream_text = stream_bytes.decode('utf-8', errors='ignore')
DecodeStream ==
  /\ step = "read"
  /\ original_stream' = Utf8DecodeIgnore(stream_bytes)
  /\ new_stream_text' = Utf8DecodeIgnore(stream_bytes)
  /\ step' = "decoded"
  /\ UNCHANGED <<family, tokens, watermark_lowers, stream_bytes,
                 new_stream_bytes, run, docVars, toolVars>>

\* Pattern 1: BT...ET blocks
RemoveTextObjects ==
  /\ step = "decoded"
  /\ new_stream_text' = SubTextObjects(new_stream_text, watermark_lowers)
  /\ step' = "blocks"
  /\ UNCHANGED <<family, tokens, watermark_lowers, stream_bytes,
                 original_stream, new_stream_bytes, run, docVars, toolVars>>

\* Pattern 2: (text) Tj, [array] TJ, (text) ' and (text) "
RemoveInlineOperators ==
  /\ step = "blocks"
  /\ new_stream_text' = InlineOperators(new_stream_text, watermark_lowers)
  /\ step' = "inline"
  /\ UNCHANGED <<family, tokens, watermark_lowers, stream_bytes,
                 original_stream, new_stream_bytes, run, docVars, toolVars>>

\* if new_stream_text != original_stream: doc.update_stream(...)
UpdateStream ==
  /\ step = "inline"
  /\ IF new_stream_text # original_stream
     THEN /\ new_stream_bytes' = Latin1EncodeIgnore(new_stream_text)
          /\ step' = "updated"
     ELSE /\ new_stream_bytes' = <<>>
          /\ step' = "unchanged"
  /\ UNCHANGED <<family, tokens, watermark_lowers, stream_bytes,
                 original_stream, new_stream_text, run, docVars, toolVars>>

\* The tool is run again on the document the run produced.
RunAgain ==
  /\ step \in {"updated", "unchanged"}
  /\ run < MaxRuns
  /\ stream_bytes' = IF step = "updated" THEN new_stream_bytes ELSE stream_bytes
  /\ original_stream' = <<>>
  /\ new_stream_text' = <<>>
  /\ new_stream_bytes' = <<>>
  /\ step' = "read"
  /\ run' = run + 1
  /\ UNCHANGED <<family, tokens, watermark_lowers, docVars, toolVars>>

StreamNext ==
  \/ DecodeStream
  \/ RemoveTextObjects
  \/ RemoveInlineOperators
  \/ UpdateStream
  \/ RunAgain

SpecStream == StreamInit /\ [][StreamNext]_vars

(***************************************************************************)
(* remove_watermark_pymupdf on a document                                  *)
(***************************************************************************)
Event(op, kind, id) == [op |-> op, kind |-> kind, id |-> id]

\* bytes.decode('latin-1'): byte b is code point b
Latin1Decode(bytes) == [i \in 1..Len(bytes) |-> bytes[i]]

Init ==
  /\ watermark_list \in WatermarkInputs
  /\ contents \in {[p \in Pages |-> c] : c \in PageStreams}
  /\ forms \in [Xrefs -> FormStreams]
  /\ unreadable \in {S \in SUBSET StreamIds : Cardinality(S) <= 1}
  /\ annots \in {[p \in Pages |-> a] : a \in AnnotLists}
  /\ page_has_text \in [Pages -> BOOLEAN]
  /\ pc = "open"
  /\ page_num = 0
  /\ xref_num = 0
  /\ events = <<>>
  /\ result = "none"
  /\ faults = 0
  /\ verify_text = <<>>
  /\ remaining_watermarks = <<>>
  /\ exit_status = -1
  /\ extract = Idle
  /\ detect = Idle
  /\ MoreIdle
  /\ family = 0
  /\ tokens = <<>>
  /\ step = "document"
  /\ run = 1
  /\ watermark_lowers = <<>>
  /\ stream_bytes = <<>>
  /\ original_stream = <<>>
  /\ new_stream_text = <<>>
  /\ new_stream_bytes = <<>>

CanFail == faults < MaxFaults

\* except Exception as e: print("Error processing PDF"); return False
Fatal ==
  /\ CanFail
  /\ faults' = faults + 1
  /\ result' = FALSE
  /\ pc' = "done"

\* continue: the next iteration of the page loop
NextPage ==
  /\ page_num' = page_num + 1
  /\ pc' = "page"

\* Open without "if watermark_strings else []": None is iterated and raises.
Open_NoneRaises ==
  /\ pc = "open"
  /\ \/ /\ watermark_list # <<>>
        /\ watermark_lowers' =
             [i \in 1..Len(watermark_list) |-> Lower(watermark_list[i])]
        /\ page_num' = 1
        /\ pc' = "page"
        /\ UNCHANGED <<events, result, faults>>
     \/ /\ watermark_list = <<>>
        /\ result' = FALSE
        /\ pc' = "done"
        /\ events' = Append(events, Event("print", "error", 0))
        /\ UNCHANGED <<watermark_lowers, page_num, faults>>
     \/ /\ Fatal
        /\ events' = Append(events, Event("print", "error", 0))
        /\ UNCHANGED <<watermark_lowers, page_num>>
  /\ UNCHANGED <<family, tokens, stream_bytes, original_stream, new_stream_text,
                 new_stream_bytes, step, run, xref_num, watermark_list,
                 contents, forms, unreadable, annots, page_has_text>>
  /\ UNCHANGED <<verifyVars, mainVars, toolVars>>

\* doc = fitz.open(pdf_path); watermark_lowers = [w.lower() ...]
Open ==
  /\ pc = "open"
  /\ \/ /\ watermark_lowers' =
             [i \in 1..Len(watermark_list) |-> Lower(watermark_list[i])]
        /\ page_num' = 1
        /\ pc' = "page"
        /\ UNCHANGED <<events, result, faults>>
     \/ /\ Fatal
        /\ events' = Append(events, Event("print", "error", 0))
        /\ UNCHANGED <<watermark_lowers, page_num>>
  /\ UNCHANGED <<family, tokens, stream_bytes, original_stream, new_stream_text,
                 new_stream_bytes, step, run, xref_num, watermark_list,
                 contents, forms, unreadable, annots, page_has_text>>
  /\ UNCHANGED <<verifyVars, mainVars, toolVars>>

\* The page loop without the test of the page's text.
has_watermark_skipped(p) == TRUE

\* has_watermark = any(wm_lower in page_text for wm_lower in watermark_lowers)
has_watermark(p) == page_has_text[p]

\* The head of the page loop, up to the has_watermark test.
PageCheck ==
  /\ pc = "page"
  /\ \/ /\ page_num > NPages
        /\ pc' = "save"
        /\ UNCHANGED <<page_num, events, result, faults>>
     \/ /\ page_num <= NPages
        /\ watermark_list = <<>>
        /\ NextPage
        /\ UNCHANGED <<events, result, faults>>
     \/ /\ page_num <= NPages
        /\ watermark_list # <<>>
        /\ ~has_watermark(page_num)
        /\ NextPage
        /\ UNCHANGED <<events, result, faults>>
     \/ /\ page_num <= NPages
        /\ watermark_list # <<>>
        /\ has_watermark(page_num)
        /\ pc' = "annots"
        /\ UNCHANGED <<page_num, events, result, faults>>
     \/ /\ page_num <= NPages
        /\ watermark_list # <<>>
        /\ Fatal
        /\ events' = Append(events, Event("print", "error", 0))
        /\ UNCHANGED page_num
  /\ UNCHANGED <<streamVars, xref_num, watermark_list, contents, forms,
                 unreadable, annots, page_has_text>>
  /\ UNCHANGED <<verifyVars, mainVars, toolVars>>

\* any(wm_lower in content_lower or wm_lower in title_lower ...)
AnnotMatches(a, wl) ==
  \E n \in 1..Len(wl) :
     Contains(Lower(a.content), wl[n]) \/ Contains(Lower(a.title), wl[n])

RECURSIVE DeleteEvents(_, _)
DeleteEvents(n, p) ==
  IF n = 0 THEN <<>>
  ELSE <<Event("delete_annot", "annot", p)>> \o DeleteEvents(n - 1, p)

\* Remove annotations containing watermark; then the search_for and
\* get_text("dict") calls that only feed the messages.
DeleteAnnotations ==
  /\ pc = "annots"
  /\ LET p == page_num
         matching == {i \in 1..Len(annots[p]) :
                        AnnotMatches(annots[p][i], watermark_lowers)}
     IN  \/ \E failed \in SUBSET matching :
              /\ failed # {} => CanFail
              /\ faults' = IF failed = {} THEN faults ELSE faults + 1
              /\ annots' = [annots EXCEPT ![p] =
                   SelectSeq(annots[p], LAMBDA a :
                     \E i \in 1..Len(annots[p]) :
                        annots[p][i] = a /\ (i \notin matching \/ i \in failed))]
              /\ events' = events \o
                   DeleteEvents(Cardinality(matching \ failed), p)
              /\ pc' = "clean"
              /\ UNCHANGED result
         \/ /\ Fatal
            /\ annots' = [annots EXCEPT ![p] =
                 SelectSeq(annots[p], LAMBDA a :
                   \E i \in 1..Len(annots[p]) :
                      annots[p][i] = a /\ i \notin matching)]
            /\ events' = (events \o DeleteEvents(Cardinality(matching), p))
                         \o <<Event("print", "error", 0)>>
  /\ UNCHANGED <<streamVars, page_num, xref_num, watermark_list, contents,
                 forms, unreadable, page_has_text>>
  /\ UNCHANGED <<verifyVars, mainVars, toolVars>>

\* page.clean_contents(), then search_for on the page
CleanContents ==
  /\ pc = "clean"
  /\ \/ /\ events' = Append(events, Event("clean_contents", "page", page_num))
        /\ pc' = "read"
        /\ UNCHANGED <<page_num, faults>>
     \/ /\ events' = Append(events, Event("clean_contents", "page", page_num))
        /\ NextPage
        /\ UNCHANGED faults
     \/ /\ CanFail \/ <<"page", page_num>> \in unreadable
        /\ faults' = IF <<"page", page_num>> \in unreadable
                     THEN faults ELSE faults + 1
        /\ NextPage
        /\ UNCHANGED events
  /\ UNCHANGED <<streamVars, xref_num, watermark_list, contents, forms,
                 unreadable, annots, page_has_text, result>>
  /\ UNCHANGED <<verifyVars, mainVars, toolVars>>

\* page.read_contents() outside its try: the exception reaches the outer
\* handler.
ReadContents_Propagates ==
  /\ pc = "read"
  /\ \/ /\ <<"page", page_num>> \in unreadable
        /\ events' = (events \o <<Event("read_failed", "page", page_num)>>)
                     \o <<Event("print", "error", 0)>>
        /\ result' = FALSE
        /\ pc' = "done"
        /\ UNCHANGED <<stream_bytes, original_stream, new_stream_text,
                       xref_num, page_num>>
     \/ /\ <<"page", page_num>> \notin unreadable
        /\ stream_bytes' = contents[page_num]
        /\ original_stream' = Utf8DecodeIgnore(contents[page_num])
        /\ new_stream_text' = Utf8DecodeIgnore(contents[page_num])
        /\ xref_num' = 1
        /\ pc' = IF contents[page_num] = <<>> THEN "page" ELSE "xobjects"
        /\ page_num' = IF contents[page_num] = <<>> THEN page_num + 1 ELSE page_num
        /\ UNCHANGED <<events, result>>
  /\ UNCHANGED <<family, tokens, watermark_lowers, new_stream_bytes, step, run,
                 watermark_list, contents, forms, unreadable, annots,
                 page_has_text, faults>>
  /\ UNCHANGED <<verifyVars, mainVars, toolVars>>

\* stream_bytes = page.read_contents() and its decoding
ReadContents ==
  /\ pc = "read"
  /\ \/ /\ <<"page", page_num>> \in unreadable
        /\ events' = Append(events, Event("read_failed", "page", page_num))
        /\ NextPage
        /\ UNCHANGED <<stream_bytes, original_stream, new_stream_text, xref_num>>
     \/ /\ <<"page", page_num>> \notin unreadable
        /\ contents[page_num] = <<>>
        /\ NextPage
        /\ stream_bytes' = contents[page_num]
        /\ UNCHANGED <<original_stream, new_stream_text, xref_num, events>>
     \/ /\ <<"page", page_num>> \notin unreadable
        /\ contents[page_num] # <<>>
        /\ stream_bytes' = contents[page_num]
        /\ original_stream' = Utf8DecodeIgnore(contents[page_num])
        /\ new_stream_text' = Utf8DecodeIgnore(contents[page_num])
        /\ xref_num' = 1
        /\ pc' = "xobjects"
        /\ UNCHANGED <<page_num, events>>
  /\ UNCHANGED <<family, tokens, watermark_lowers, new_stream_bytes, step, run,
                 watermark_list, contents, forms, unreadable, annots,
                 page_has_text, result, faults>>
  /\ UNCHANGED <<verifyVars, mainVars, toolVars>>

\* process_form_xobject(doc, xobj_xref, watermark_lowers, page_num): the new
\* stream text, which is the old one when nothing is to be written.
process_form_xobject(xobj_stream_bytes, wl) ==
  LET xobj_stream_text == Utf8DecodeIgnore(xobj_stream_bytes)
  IN  IF xobj_stream_bytes = <<>> THEN xobj_stream_text
      ELSE IF ~AnyNeedleIn(Lower(xobj_stream_text), wl) THEN xobj_stream_text
      ELSE RewriteStream(xobj_stream_text, wl)

\* One iteration of the loop over doc.xref_length()
ProcessXref ==
  /\ pc = "xobjects"
  /\ \/ /\ xref_num > NForms
        /\ pc' = "rewrite"
        /\ UNCHANGED <<xref_num, stream_bytes, forms, events, faults>>
     \/ /\ xref_num <= NForms
        /\ <<"form", xref_num>> \in unreadable
        /\ events' = Append(events, Event("read_failed", "form", xref_num))
        /\ xref_num' = xref_num + 1
        /\ UNCHANGED <<pc, stream_bytes, forms, faults>>
     \/ /\ xref_num <= NForms
        /\ <<"form", xref_num>> \notin unreadable
        /\ ~AnyNeedleIn(Lower(Latin1Decode(forms[xref_num])), watermark_lowers)
        /\ stream_bytes' = forms[xref_num]
        /\ xref_num' = xref_num + 1
        /\ UNCHANGED <<pc, forms, events, faults>>
     \/ /\ xref_num <= NForms
        /\ <<"form", xref_num>> \notin unreadable
        /\ AnyNeedleIn(Lower(Latin1Decode(forms[xref_num])), watermark_lowers)
        /\ stream_bytes' = forms[xref_num]
        /\ xref_num' = xref_num + 1
        /\ LET old == Utf8DecodeIgnore(forms[xref_num])
               new == process_form_xobject(forms[xref_num], watermark_lowers)
           IN  IF new = old
               THEN UNCHANGED <<forms, events, faults>>
               ELSE \E failures \in 0..2 :
                      /\ failures > 0 => CanFail
                      /\ faults' = IF failures = 0 THEN faults ELSE faults + 1
                      /\ IF failures < 2
                         THEN /\ forms' = [forms EXCEPT ![xref_num] =
                                             Latin1EncodeIgnore(new)]
                              /\ events' = Append(events,
                                   Event("update_stream", "form", xref_num))
                         ELSE UNCHANGED <<forms, events>>
        /\ UNCHANGED pc
  /\ UNCHANGED <<family, tokens, watermark_lowers, original_stream,
                 new_stream_text, new_stream_bytes, step, run, page_num,
                 watermark_list, contents, unreadable, annots, page_has_text,
                 result>>
  /\ UNCHANGED <<verifyVars, mainVars, toolVars>>

\* The five substitutions on the page's stream and its write-back
RewritePageStream ==
  /\ pc = "rewrite"
  /\ new_stream_text' = RewriteStream(original_stream, watermark_lowers)
  /\ IF new_stream_text' = original_stream
     THEN UNCHANGED <<new_stream_bytes, contents, events, faults>>
     ELSE /\ new_stream_bytes' = Latin1EncodeIgnore(new_stream_text')
          /\ \E failures \in 0..3 :
               /\ failures > 0 => CanFail
               /\ faults' = IF failures = 0 THEN faults ELSE faults + 1
               /\ IF failures < 3
                  THEN /\ contents' = [contents EXCEPT ![page_num] =
                                         Latin1EncodeIgnore(new_stream_text')]
                       /\ events' = events \o
                            <<Event("update_stream", "page", page_num),
                              Event("clean_contents", "page", page_num)>>
                  ELSE UNCHANGED <<contents, events>>
  /\ NextPage
  /\ UNCHANGED <<family, tokens, watermark_lowers, stream_bytes,
                 original_stream, step, run, xref_num, watermark_list, forms,
                 unreadable, annots, page_has_text, result>>
  /\ UNCHANGED <<verifyVars, mainVars, toolVars>>

\* The save done a second time before the verification.
Save_Twice ==
  /\ pc = "save"
  /\ \/ /\ events' = events \o <<Event("save", "doc", 0), Event("save", "doc", 0)>>
        /\ pc' = "verify"
        /\ UNCHANGED <<result, faults>>
     \/ /\ Fatal
        /\ events' = Append(events, Event("print", "error", 0))
  /\ UNCHANGED <<streamVars, page_num, xref_num, watermark_list, contents,
                 forms, unreadable, annots, page_has_text>>
  /\ UNCHANGED <<verifyVars, mainVars, toolVars>>

\* doc.save(output_path, garbage=4, deflate=True)
Save ==
  /\ pc = "save"
  /\ \/ /\ events' = Append(events, Event("save", "doc", 0))
        /\ pc' = "verify"
        /\ UNCHANGED <<result, faults>>
     \/ /\ Fatal
        /\ events' = Append(events, Event("print", "error", 0))
  /\ UNCHANGED <<streamVars, page_num, xref_num, watermark_list, contents,
                 forms, unreadable, annots, page_has_text>>
  /\ UNCHANGED <<verifyVars, mainVars, toolVars>>

\* page.get_text() of a page of the saved document
VerifyTexts == {Txt(<<"H">>), Txt(<<"a","S","D">>)}

\* for wm_lower in watermark_lowers: if wm_lower in page_text: append
RECURSIVE PageEntries(_, _, _, _)
PageEntries(p, page_text, wl, n) ==
  IF n > Len(wl) THEN <<>>
  ELSE (IF Contains(page_text, wl[n]) THEN << <<p, wl[n]>> >> ELSE <<>>)
       \o PageEntries(p, page_text, wl, n + 1)

\* The verification loop with page_text taken as it is, not lower-cased.
RECURSIVE VerifyPages_CaseSensitive(_, _, _)
VerifyPages_CaseSensitive(texts, wl, p) ==
  IF p > Len(texts) THEN <<>>
  ELSE PageEntries(p, texts[p], wl, 1)
       \o VerifyPages_CaseSensitive(texts, wl, p + 1)

\* for page_num in range(len(verify_doc)): page_text = get_text().lower() ...
\* (the page is reported as page_num + 1: p here)
RECURSIVE VerifyPages(_, _, _)
VerifyPages(texts, wl, p) ==
  IF p > Len(texts) THEN <<>>
  ELSE PageEntries(p, Lower(texts[p]), wl, 1) \o VerifyPages(texts, wl, p + 1)

\* Verify watermark removal; doc.close(); return True
Verify ==
  /\ pc = "verify"
  /\ \/ /\ watermark_list = <<>>
        /\ result' = TRUE
        /\ pc' = "done"
        /\ UNCHANGED <<events, faults, verifyVars>>
     \/ /\ watermark_list # <<>>
        /\ \E texts \in [Pages -> VerifyTexts] :
             /\ verify_text' = texts
             /\ remaining_watermarks' = VerifyPages(texts, watermark_lowers, 1)
        /\ events' = Append(events,
             Event("print", IF remaining_watermarks' # <<>>
                            THEN "warning" ELSE "verified", 0))
        /\ result' = TRUE
        /\ pc' = "done"
        /\ UNCHANGED faults
     \/ /\ watermark_list # <<>>
        /\ Fatal
        /\ events' = Append(events, Event("print", "error", 0))
        /\ UNCHANGED verifyVars
  /\ UNCHANGED <<streamVars, page_num, xref_num, watermark_list, contents,
                 forms, unreadable, annots, page_has_text>>
  /\ UNCHANGED <<mainVars, toolVars>>

\* main with the result taken for a success whatever it is.
MainExit_IgnoresResult ==
  /\ pc = "done"
  /\ pc' = "exited"
  /\ exit_status' = 0
  /\ events' = Append(events, Event("print", "success", 0))
  /\ UNCHANGED <<streamVars, page_num, xref_num, watermark_list, contents,
                 forms, unreadable, annots, page_has_text, result, faults,
                 verifyVars, toolVars>>

\* main after remove_watermark_pymupdf has returned: if success: print(...)
\* else: print("Error: Failed to process PDF"); sys.exit(1)
MainExit ==
  /\ pc = "done"
  /\ pc' = "exited"
  /\ exit_status' = IF result = TRUE THEN 0 ELSE 1
  /\ events' = Append(events,
       Event("print", IF result = TRUE THEN "success" ELSE "failed", 0))
  /\ UNCHANGED <<streamVars, page_num, xref_num, watermark_list, contents,
                 forms, unreadable, annots, page_has_text, result, faults,
                 verifyVars, toolVars>>

Next ==
  \/ Open
  \/ PageCheck
  \/ DeleteAnnotations
  \/ CleanContents
  \/ ReadContents
  \/ ProcessXref
  \/ RewritePageStream
  \/ Save
  \/ Verify
  \/ MainExit

Spec == Init /\ [][Next]_vars

(***************************************************************************)
(* scripts/extract_pages.py: main from the parsing of the page range, and  *)
(* extract_pages.  The record extract holds the program's state.           *)
(***************************************************************************)
MaxRangeTokens == 4
MaxDocPages == 3

\* The pieces of which the --page-range argument is made.
RangePieces == <<Txt(<<"1">>), Txt(<<"2">>), Txt(<<"3">>), Txt(<<",">>),
                 Txt(<<"-">>), Txt(<<" ">>)>>

RECURSIVE LStrip(_)
LStrip(s) == IF s # <<>> /\ IsSpace(Head(s)) THEN LStrip(Tail(s)) ELSE s

RECURSIVE RStrip(_)
RStrip(s) ==
  IF s # <<>> /\ IsSpace(s[Len(s)]) THEN RStrip(SubSeq(s, 1, Len(s) - 1)) ELSE s

\* str.strip()
Strip(s) == RStrip(LStrip(s))

\* str.split(c), c one character
RECURSIVE Split(_, _)
Split(s, c) ==
  LET k == IndexOf(s, 1, c)
  IN  IF k = 0 THEN <<s>>
      ELSE <<Slice(s, 1, k - 1)>> \o Split(Slice(s, k + 1, Len(s)), c)

IsDigit(c) == c \in 48..57

RECURSIVE DigitsValue(_)
DigitsValue(ds) ==
  IF ds = <<>> THEN 0
  ELSE DigitsValue(SubSeq(ds, 1, Len(ds) - 1)) * 10 + (ds[Len(ds)] - 48)

\* int(t) for a stripped t made of digits, '-', ',' and spaces: ok is FALSE
\* where int raises ValueError.
ParseInt(t) ==
  LET neg  == t # <<>> /\ t[1] = Ch("-")
      body == IF neg THEN Tail(t) ELSE t
      ok   == body # <<>> /\ \A i \in 1..Len(body) : IsDigit(body[i])
  IN  [ok |-> ok,
       val |-> IF ~ok THEN 0
               ELSE IF neg THEN 0 - DigitsValue(body) ELSE DigitsValue(body)]

ExtractExit(status) == [extract EXCEPT !.pc = "exited", !.status = status]

StreamIdle ==
  /\ family = 0
  /\ tokens = <<>>
  /\ watermark_lowers = <<>>
  /\ stream_bytes = <<>>
  /\ original_stream = <<>>
  /\ new_stream_text = <<>>
  /\ new_stream_bytes = <<>>
  /\ step = "idle"
  /\ run = 1

DocIdle ==
  /\ pc = "idle"
  /\ page_num = 0
  /\ xref_num = 0
  /\ watermark_list = <<>>
  /\ contents = <<>>
  /\ forms = <<>>
  /\ unreadable = {}
  /\ annots = <<>>
  /\ page_has_text = <<>>
  /\ events = <<>>
  /\ result = "none"
  /\ faults = 0
  /\ verify_text = <<>>
  /\ remaining_watermarks = <<>>
  /\ exit_status = -1

ExtractInit ==
  /\ StreamIdle
  /\ DocIdle
  /\ detect = Idle
  /\ MoreIdle
  /\ \E ids \in SeqsUpTo(1..Len(RangePieces), MaxRangeTokens) :
     \E n \in 0..MaxDocPages :
        extract = [pc |-> "parse",
                   range_str |-> Flatten([i \in 1..Len(ids) |-> RangePieces[ids[i]]]),
                   doc_len |-> n, parsed |-> FALSE,
                   start_page |-> 0, end_page |-> 0,
                   new_doc |-> <<>>, saved |-> FALSE, output |-> <<>>,
                   status |-> -1]

\* main: Parse page range
ParseRange ==
  /\ extract.pc = "parse"
  /\ LET range_str == Strip(extract.range_str)
         parts == IF IndexOf(range_str, 1, Ch(",")) # 0
                  THEN Split(range_str, Ch(","))
                  ELSE IF IndexOf(range_str, 1, Ch("-")) # 0
                  THEN Split(range_str, Ch("-"))
                  ELSE <<>>
         first  == ParseInt(Strip(parts[1]))
         second == ParseInt(Strip(parts[2]))
     IN  extract' =
           IF Len(parts) # 2 THEN ExtractExit(1)
           ELSE IF ~first.ok \/ ~second.ok THEN ExtractExit(1)
           ELSE IF first.val < 1 THEN ExtractExit(1)
           ELSE IF second.val < first.val THEN ExtractExit(1)
           ELSE [extract EXCEPT !.pc = "open", !.parsed = TRUE,
                                !.start_page = first.val,
                                !.end_page = second.val]
  /\ UNCHANGED <<streamVars, docVars, detect, moreVars>>

\* doc = fitz.open(input_path); if len(doc) == 0: sys.exit(1)
OpenInput ==
  /\ extract.pc = "open"
  /\ \/ extract' = IF extract.doc_len = 0 THEN ExtractExit(1)
                   ELSE [extract EXCEPT !.pc = "validate"]
     \/ extract' = ExtractExit(1)
  /\ UNCHANGED <<streamVars, docVars, detect, moreVars>>

\* The validation with end_idx > len(doc) for end_idx >= len(doc).
ValidateRange_OffByOne ==
  /\ extract.pc = "validate"
  /\ LET start_idx == extract.start_page - 1
         end_idx   == extract.end_page - 1
     IN  extract' =
           IF start_idx < 0 \/ end_idx > extract.doc_len THEN ExtractExit(1)
           ELSE IF start_idx > end_idx THEN ExtractExit(1)
           ELSE [extract EXCEPT !.pc = "insert"]
  /\ UNCHANGED <<streamVars, docVars, detect, moreVars>>

\* Validate page range (convert from 1-indexed to 0-indexed)
ValidateRange ==
  /\ extract.pc = "validate"
  /\ LET start_idx == extract.start_page - 1
         end_idx   == extract.end_page - 1
     IN  extract' =
           IF start_idx < 0 \/ end_idx >= extract.doc_len THEN ExtractExit(1)
           ELSE IF start_idx > end_idx THEN ExtractExit(1)
           ELSE [extract EXCEPT !.pc = "insert"]
  /\ UNCHANGED <<streamVars, docVars, detect, moreVars>>

\* The pages (numbered from 1) that insert_pdf copies for from_page..to_page
\* (0-based, inclusive) of a document of n pages.
InsertedPages(n, from_page, to_page) ==
  LET last == IF to_page > n - 1 THEN n - 1 ELSE to_page
  IN  IF from_page > last THEN <<>>
      ELSE [i \in 1..(last - from_page + 1) |-> from_page + i]

\* new_doc = fitz.open(); new_doc.insert_pdf(doc, from_page, to_page)
InsertPdf ==
  /\ extract.pc = "insert"
  /\ \/ extract' = [extract EXCEPT !.pc = "save",
                      !.new_doc = InsertedPages(extract.doc_len,
                                    extract.start_page - 1, extract.end_page - 1)]
     \/ extract' = ExtractExit(1)
  /\ UNCHANGED <<streamVars, docVars, detect, moreVars>>

\* new_doc.save(output_path); the function returns and main ends
SaveOutput ==
  /\ extract.pc = "save"
  /\ \/ extract' = [extract EXCEPT !.pc = "exited", !.status = 0,
                                   !.saved = TRUE, !.output = extract.new_doc]
     \/ extract' = ExtractExit(1)
  /\ UNCHANGED <<streamVars, docVars, detect, moreVars>>

ExtractNext ==
  \/ ParseRange
  \/ OpenInput
  \/ ValidateRange
  \/ InsertPdf
  \/ SaveOutput

SpecExtract == ExtractInit /\ [][ExtractNext]_vars

(***************************************************************************)
(* detect_watermark_text: a page is the sequence of its lines, a line the  *)
(* concatenation of the texts of its spans.  The record detect holds the   *)
(* function's state.                                                       *)
(***************************************************************************)
MaxDetectPages == 4
sample_pages == 3

DataLine == Txt(<<"D", "A", "T", "A">>)
PaddedDataLine == Txt(<<" ", "D", "A", "T", "A", " ">>)
HeadLine == Txt(<<"H", "E", "A", "D">>)
ShortLine == Txt(<<"S", "D">>)

PageLayouts ==
  {<<>>, <<DataLine>>, <<DataLine, DataLine>>, <<DataLine, DataLine, DataLine>>,
   <<PaddedDataLine, HeadLine>>, <<HeadLine>>, <<ShortLine>>,
   <<HeadLine, DataLine>>}

DetectInit ==
  /\ StreamIdle
  /\ DocIdle
  /\ extract = Idle
  /\ MoreIdle
  /\ \E doc \in SeqsUpTo(PageLayouts, MaxDetectPages) :
        detect = [pc |-> "open", doc |-> doc, pages_to_check |-> 0,
                  page_num |-> 0, text_frequency |-> <<>>,
                  found |-> FALSE, text |-> <<>>]

\* return None
ReturnNone == [detect EXCEPT !.pc = "returned", !.found = FALSE, !.text = <<>>]

\* text_frequency[line_text] = text_frequency.get(line_text, 0) + 1, on a
\* dictionary kept in insertion order
CountLine(tf, line_text) ==
  IF \E i \in 1..Len(tf) : tf[i].text = line_text
  THEN [i \in 1..Len(tf) |->
          IF tf[i].text = line_text
          THEN [text |-> line_text, count |-> tf[i].count + 1] ELSE tf[i]]
  ELSE Append(tf, [text |-> line_text, count |-> 1])

RECURSIVE CountLines(_, _)
CountLines(tf, lines) ==
  IF lines = <<>> THEN tf
  ELSE LET line_text == Strip(Head(lines))
       IN  CountLines(IF Len(line_text) > 3 THEN CountLine(tf, line_text) ELSE tf,
                      Tail(lines))

\* max(text_frequency.items(), key=lambda x: x[1]): the first item of the
\* greatest count
MostCommon(tf) ==
  LET i == CHOOSE i \in 1..Len(tf) :
             /\ \A j \in 1..Len(tf) : tf[j].count <= tf[i].count
             /\ \A j \in 1..(i - 1) : tf[j].count < tf[i].count
  IN  tf[i]

\* doc = fitz.open(pdf_path); len(doc) == 0; pages_to_check
DetectOpen ==
  /\ detect.pc = "open"
  /\ \/ detect' =
          IF Len(detect.doc) = 0 THEN ReturnNone
          ELSE [detect EXCEPT !.pc = "scan",
                  !.pages_to_check = IF sample_pages < Len(detect.doc)
                                     THEN sample_pages ELSE Len(detect.doc)]
     \/ detect' = ReturnNone
  /\ UNCHANGED <<streamVars, docVars, extract, moreVars>>

\* One turn of the loop over range(pages_to_check)
DetectPage ==
  /\ detect.pc = "scan"
  /\ detect.page_num < detect.pages_to_check
  /\ \/ detect' = [detect EXCEPT
                     !.page_num = detect.page_num + 1,
                     !.text_frequency =
                        CountLines(detect.text_frequency,
                                   detect.doc[detect.page_num + 1])]
     \/ detect' = ReturnNone
  /\ UNCHANGED <<streamVars, docVars, extract, moreVars>>

\* most_common[1] >= pages_to_check * 0.7
DetectReturn ==
  /\ detect.pc = "scan"
  /\ detect.page_num = detect.pages_to_check
  /\ detect' =
       IF detect.text_frequency = <<>> THEN ReturnNone
       ELSE LET most_common == MostCommon(detect.text_frequency)
            IN  IF 10 * most_common.count >= 7 * detect.pages_to_check
                THEN [detect EXCEPT !.pc = "returned", !.found = TRUE,
                                    !.text = most_common.text]
                ELSE ReturnNone
  /\ UNCHANGED <<streamVars, docVars, extract, moreVars>>

DetectNext ==
  \/ DetectOpen
  \/ DetectPage
  \/ DetectReturn

SpecDetect == DetectInit /\ [][DetectNext]_vars

(***************************************************************************)
(* The processing of one page that has several content streams (the body   *)
(* of the page loop from page.clean_contents() to the write-back).  The    *)
(* record multi holds the page's /Contents streams in order.               *)
(* page.clean_contents() replaces the streams of the page by one stream     *)
(* holding their concatenation; its normalisation of the operators is left *)
(* out, as in CleanContents.                                               *)
(***************************************************************************)
MaxStreams == 3

StreamParts == {Txt(<<"B","T"," ","/","F"," ","T","f"," ">>),
                Txt(<<"(","S","D",")"," ","T","j"," ">>),
                Txt(<<"(","H",")"," ","T","j"," ">>),
                Txt(<<"E","T">>)}

MultiNeedles == <<Txt(<<"s","d">>)>>

MultiInit ==
  /\ StreamIdle
  /\ DocIdle
  /\ extract = Idle
  /\ detect = Idle
  /\ toc = Idle /\ pypdf = Idle /\ scan = Idle
  /\ \E st \in SeqsUpTo(StreamParts, MaxStreams) :
        /\ st # <<>>
        /\ multi = [pc |-> "clean", given |-> st, streams |-> st,
                    buffer |-> <<>>, original |-> <<>>, new |-> <<>>,
                    written |-> FALSE]

MultiSkip == [multi EXCEPT !.pc = "next"]

\* The clean_contents that leaves the streams of the page as they are.
MultiClean_Separate ==
  /\ multi.pc = "clean"
  /\ \/ multi' = [multi EXCEPT !.pc = "read"]
     \/ multi' = MultiSkip
  /\ UNCHANGED <<streamVars, docVars, extract, detect, toc, pypdf, scan>>

\* page.clean_contents(); search_for finding nothing is the `continue`
MultiClean ==
  /\ multi.pc = "clean"
  /\ \/ multi' = [multi EXCEPT !.pc = "read",
                               !.streams = <<Flatten(multi.streams)>>]
     \/ multi' = [multi EXCEPT !.pc = "next",
                               !.streams = <<Flatten(multi.streams)>>]
     \/ multi' = MultiSkip
  /\ UNCHANGED <<streamVars, docVars, extract, detect, toc, pypdf, scan>>

\* content_stream = page.read_contents() and its decoding
MultiRead ==
  /\ multi.pc = "read"
  /\ \/ multi' = IF Flatten(multi.streams) = <<>> THEN MultiSkip
                 ELSE [multi EXCEPT !.pc = "rewrite",
                         !.buffer = Flatten(multi.streams),
                         !.original = Utf8DecodeIgnore(Flatten(multi.streams))]
     \/ multi' = MultiSkip
  /\ UNCHANGED <<streamVars, docVars, extract, detect, toc, pypdf, scan>>

\* The five substitutions
MultiRewrite ==
  /\ multi.pc = "rewrite"
  /\ multi' = [multi EXCEPT !.pc = "update",
                            !.new = RewriteStream(multi.original, MultiNeedles)]
  /\ UNCHANGED <<streamVars, docVars, extract, detect, toc, pypdf, scan>>

\* doc.update_stream(content_xrefs[0], new_stream_bytes, ...)
MultiUpdate ==
  /\ multi.pc = "update"
  /\ \/ multi' = IF multi.new = multi.original THEN MultiSkip
                 ELSE [multi EXCEPT !.pc = "next", !.written = TRUE,
                         !.streams[1] = Latin1EncodeIgnore(multi.new)]
     \/ multi.new # multi.original /\ multi' = MultiSkip
  /\ UNCHANGED <<streamVars, docVars, extract, detect, toc, pypdf, scan>>

MultiNext ==
  \/ MultiClean
  \/ MultiRead
  \/ MultiRewrite
  \/ MultiUpdate

SpecContents == MultiInit /\ [][MultiNext]_vars

(***************************************************************************)
(* scripts/add_bookmark.py: add_toc_bookmarks.  An entry is the tuple      *)
(* (section_num, title, page_number, bbox, full_line_text, level,          *)
(* page_idx) of extract_toc_entries; the model keeps its section number    *)
(* (the numbers between the dots, <<>> for the empty string), its title    *)
(* and its page number.  The titles of the model are HEAD and SD: the      *)
(* first passes every test on the title, the second is too short.          *)
(***************************************************************************)
MaxEntries == 3
TocDocPages == 3

TocEntry(section, title, page) ==
  [section |-> section, title |-> title, page |-> page]

TocEntries ==
  {TocEntry(<<1>>, HeadLine, 1), TocEntry(<<1, 1>>, HeadLine, 1),
   TocEntry(<<2>>, HeadLine, 2), TocEntry(<<>>, HeadLine, 2),
   TocEntry(<<3>>, ShortLine, 1), TocEntry(<<2, 1>>, HeadLine, 4)}

TocInit ==
  /\ StreamIdle
  /\ DocIdle
  /\ extract = Idle
  /\ detect = Idle
  /\ multi = Idle /\ pypdf = Idle /\ scan = Idle
  /\ \E es \in SeqsUpTo(TocEntries, MaxEntries) :
        toc = [pc |-> "sort", toc_entries |-> es, sorted_entries |-> <<>>,
               new_toc |-> <<>>, outline |-> <<>>, returned |-> -1]

\* a < b for tuples of integers
RECURSIVE TupleLess(_, _)
TupleLess(a, b) ==
  IF b = <<>> THEN FALSE
  ELSE IF a = <<>> THEN TRUE
  ELSE IF Head(a) # Head(b) THEN Head(a) < Head(b)
  ELSE TupleLess(Tail(a), Tail(b))

\* sort_key(entry) = (page_num, section_parts)
sort_key(entry) ==
  <<entry.page>> \o (IF entry.section = <<>> THEN <<0>> ELSE entry.section)

\* x put into the sorted list after the entries whose key is not greater
RECURSIVE InsertSorted(_, _)
InsertSorted(x, list) ==
  IF list = <<>> THEN <<x>>
  ELSE IF TupleLess(sort_key(x), sort_key(Head(list))) THEN <<x>> \o list
  ELSE <<Head(list)>> \o InsertSorted(x, Tail(list))

\* sorted(toc_entries, key=sort_key), which is stable
RECURSIVE Sorted(_)
Sorted(es) ==
  IF es = <<>> THEN <<>>
  ELSE InsertSorted(es[Len(es)], Sorted(SubSeq(es, 1, Len(es) - 1)))

\* The body of `for entry in sorted_entries`: the bookmark of the entry, or
\* nothing when the entry is skipped.
Bookmark(entry) ==
  IF Len(Strip(entry.title)) < 3 THEN <<>>
  ELSE IF entry.page <= 0 \/ entry.page > TocDocPages THEN <<>>
  ELSE << [level |-> IF entry.section # <<>> THEN Len(entry.section) ELSE 1,
           section |-> entry.section,
           title |-> Strip(entry.title),
           page |-> entry.page] >>

RECURSIVE Bookmarks(_)
Bookmarks(es) ==
  IF es = <<>> THEN <<>> ELSE Bookmark(Head(es)) \o Bookmarks(Tail(es))

\* new_toc.insert(0, new_toc.pop(j))
MoveToFront(list, j) ==
  <<list[j]>> \o SubSeq(list, 1, j - 1) \o SubSeq(list, j + 1, Len(list))

\* "PyMuPDF requires the first bookmark to be level 1"
FirstLevelOne(new_toc) ==
  IF new_toc[1].level = 1 THEN new_toc
  ELSE IF \E j \in 1..Len(new_toc) : new_toc[j].level = 1
       THEN MoveToFront(new_toc,
              CHOOSE j \in 1..Len(new_toc) :
                 /\ new_toc[j].level = 1
                 /\ \A k \in 1..(j - 1) : new_toc[k].level # 1)
       ELSE [new_toc EXCEPT ![1].level = 1]

TocFailed == [toc EXCEPT !.pc = "returned", !.returned = 0]

\* sorted_entries = sorted(toc_entries, key=sort_key)
TocSort ==
  /\ toc.pc = "sort"
  /\ \/ toc' = [toc EXCEPT !.pc = "build",
                           !.sorted_entries = Sorted(toc.toc_entries)]
     \/ toc' = TocFailed
  /\ UNCHANGED <<streamVars, docVars, extract, detect, multi, pypdf, scan>>

\* for entry in sorted_entries: ... new_toc.append([level, title, page])
TocBuild ==
  /\ toc.pc = "build"
  /\ toc' = [toc EXCEPT !.pc = "set", !.new_toc = Bookmarks(toc.sorted_entries)]
  /\ UNCHANGED <<streamVars, docVars, extract, detect, multi, pypdf, scan>>

\* if new_toc: ... doc.set_toc(new_toc); return len(new_toc)
TocSet ==
  /\ toc.pc = "set"
  /\ \/ toc' = IF toc.new_toc = <<>> THEN TocFailed
               ELSE [toc EXCEPT !.pc = "returned",
                                !.new_toc = FirstLevelOne(toc.new_toc),
                                !.outline = FirstLevelOne(toc.new_toc),
                                !.returned = Len(toc.new_toc)]
     \/ toc.new_toc # <<>> /\ toc' = TocFailed
  /\ UNCHANGED <<streamVars, docVars, extract, detect, multi, pypdf, scan>>

TocNext ==
  \/ TocSort
  \/ TocBuild
  \/ TocSet

SpecToc == TocInit /\ [][TocNext]_vars

(***************************************************************************)
(* scripts/add_bookmark.py: main, from the test of the extracted entries   *)
(* to the exit.  Here an entry is the whole tuple that extract_toc_entries *)
(* appends, of seven items.                                                *)
(***************************************************************************)
MaxTocEntries == 11
ListLimit == 10

\* (section_num, title, page_num, line_bbox, line_text, level, page_idx)
EntryTuple(section) ==
  <<section, HeadLine, 1, "bbox", "line_text",
    IF section = <<>> THEN 1 ELSE Len(section), 0>>

EntryTuples == {EntryTuple(<<1>>), EntryTuple(<<>>)}

TocMainInit ==
  /\ StreamIdle
  /\ DocIdle
  /\ extract = Idle
  /\ detect = Idle
  /\ multi = Idle /\ pypdf = Idle /\ scan = Idle
  /\ \E es \in SeqsUpTo(EntryTuples, MaxTocEntries) :
        toc = [pc |-> "extracted", toc_entries |-> es, bookmarks_added |-> -1,
               outline |-> <<>>, saved |-> FALSE, status |-> -1,
               raised |-> FALSE]

TocExit(status) == [toc EXCEPT !.pc = "exited", !.status = status]

\* A call into the library raises: except Exception ... sys.exit(1)
TocRaised == [toc EXCEPT !.pc = "exited", !.status = 1, !.raised = TRUE]

\* if not toc_entries: ... sys.exit(1)
MainCheckEntries ==
  /\ toc.pc = "extracted"
  /\ toc' = IF toc.toc_entries = <<>> THEN TocExit(1)
            ELSE [toc EXCEPT !.pc = "list"]
  /\ UNCHANGED <<streamVars, docVars, extract, detect, multi, pypdf, scan>>

\* The names that `for section_num, title, page_num, _, _, level in`
\* unpacks an entry into.
UnpackTargets == 6

\* if len(toc_entries) <= 10: for ... in toc_entries: the unpacking of an
\* entry whose length is not the number of targets raises ValueError, which
\* is an Exception.
MainListEntries ==
  /\ toc.pc = "list"
  /\ toc' = IF /\ Len(toc.toc_entries) <= ListLimit
               /\ \E i \in 1..Len(toc.toc_entries) :
                     Len(toc.toc_entries[i]) # UnpackTargets
            THEN TocExit(1)
            ELSE [toc EXCEPT !.pc = "bookmarks"]
  /\ UNCHANGED <<streamVars, docVars, extract, detect, multi, pypdf, scan>>

\* What add_toc_bookmarks reads of the entries: entry[0], entry[1], entry[2]
AsTocEntries(es) ==
  [i \in 1..Len(es) |-> TocEntry(es[i][1], es[i][2], es[i][3])]

\* bookmarks_added = add_toc_bookmarks(doc, toc_entries)
MainAddBookmarks ==
  /\ toc.pc = "bookmarks"
  /\ LET new_toc == Bookmarks(Sorted(AsTocEntries(toc.toc_entries)))
     IN  \/ toc' = IF new_toc = <<>>
                   THEN [toc EXCEPT !.pc = "save", !.bookmarks_added = 0]
                   ELSE [toc EXCEPT !.pc = "save",
                                    !.bookmarks_added = Len(new_toc),
                                    !.outline = FirstLevelOne(new_toc)]
         \/ toc' = [toc EXCEPT !.pc = "save", !.bookmarks_added = 0]
  /\ UNCHANGED <<streamVars, docVars, extract, detect, multi, pypdf, scan>>

\* doc.save(output_path); doc.close()
MainSave ==
  /\ toc.pc = "save"
  /\ \/ toc' = [toc EXCEPT !.pc = "exited", !.status = 0, !.saved = TRUE]
     \/ toc' = TocRaised
  /\ UNCHANGED <<streamVars, docVars, extract, detect, multi, pypdf, scan>>

TocMainNext ==
  \/ MainCheckEntries
  \/ MainListEntries
  \/ MainAddBookmarks
  \/ MainSave

SpecTocMain == TocMainInit /\ [][TocMainNext]_vars

(***************************************************************************)
(* remove_watermark_pypdf.  A page is its /Annots entry: whether it is     *)
(* there and the annotations it lists; an annotation is its /Contents and  *)
(* /T and whether reading them raises.                                     *)
(***************************************************************************)
MaxPypdfPages == 2

PdfAnnot(content, title, readable) ==
  [content |-> content, title |-> title, readable |-> readable]

StampAnnot == PdfAnnot(Txt(<<"S","e","t">>), <<>>, TRUE)
TitledAnnot == PdfAnnot(Txt(<<"H">>), Txt(<<"S","D">>), TRUE)
PlainAnnot == PdfAnnot(Txt(<<"H">>), Txt(<<"A">>), TRUE)
BrokenAnnot == PdfAnnot(Txt(<<"S","e","t">>), <<>>, FALSE)

PdfPage(has_annots, annot_refs) ==
  [has_annots |-> has_annots, annots |-> annot_refs]

PdfPageLayouts ==
  {PdfPage(FALSE, <<>>), PdfPage(TRUE, <<>>),
   PdfPage(TRUE, <<PlainAnnot>>), PdfPage(TRUE, <<StampAnnot>>),
   PdfPage(TRUE, <<PlainAnnot, StampAnnot>>),
   PdfPage(TRUE, <<StampAnnot, TitledAnnot>>),
   PdfPage(TRUE, <<TitledAnnot, PlainAnnot, BrokenAnnot>>),
   PdfPage(TRUE, <<BrokenAnnot>>)}

PypdfInit ==
  /\ StreamIdle
  /\ DocIdle
  /\ extract = Idle
  /\ detect = Idle
  /\ multi = Idle /\ toc = Idle /\ scan = Idle
  /\ \E ps \in SeqsUpTo(PdfPageLayouts, MaxPypdfPages) :
     \E ws \in WatermarkInputs :
        pypdf = [pc |-> "open", pages |-> ps, watermark_list |-> ws,
                 watermark_lowers |-> <<>>, page_idx |-> 0,
                 writer |-> <<>>, written |-> <<>>, result |-> "none"]

\* except Exception: return False
PypdfFailed == [pypdf EXCEPT !.pc = "returned", !.result = "False"]

\* The test on an annotation with /T left out.
PypdfSkips_ContentOnly(annot, wms, wl) ==
  /\ annot.readable
  /\ wms # <<>>
  /\ \E n \in 1..Len(wl) : Contains(Lower(annot.content), wl[n])

\* The annotation is dropped: the `continue` inside the try
PypdfSkips(annot, wms, wl) ==
  /\ annot.readable
  /\ wms # <<>>
  /\ \E n \in 1..Len(wl) :
        Contains(Lower(annot.content), wl[n]) \/ Contains(Lower(annot.title), wl[n])

RECURSIVE NewAnnots(_, _, _)
NewAnnots(annot_refs, wms, wl) ==
  IF annot_refs = <<>> THEN <<>>
  ELSE (IF PypdfSkips(Head(annot_refs), wms, wl)
        THEN <<>> ELSE <<Head(annot_refs)>>)
       \o NewAnnots(Tail(annot_refs), wms, wl)

\* The page as writer.add_page receives it
FilteredPage(page, wms, wl) ==
  IF ~page.has_annots \/ page.annots = <<>> THEN page
  ELSE LET new_annots == NewAnnots(page.annots, wms, wl)
       IN  IF new_annots # <<>> THEN PdfPage(TRUE, new_annots)
           ELSE PdfPage(FALSE, <<>>)

\* reader = PdfReader(pdf_path); writer = PdfWriter(); the needles
PypdfOpen ==
  /\ pypdf.pc = "open"
  /\ \/ pypdf' = [pypdf EXCEPT !.pc = "pages", !.page_idx = 1,
                    !.watermark_lowers =
                       [i \in 1..Len(pypdf.watermark_list) |->
                          Lower(pypdf.watermark_list[i])]]
     \/ pypdf' = PypdfFailed
  /\ UNCHANGED <<streamVars, docVars, extract, detect, multi, toc, scan>>

\* One turn of `for page in reader.pages`
PypdfPage ==
  /\ pypdf.pc = "pages"
  /\ pypdf.page_idx <= Len(pypdf.pages)
  /\ \/ pypdf' = [pypdf EXCEPT !.page_idx = pypdf.page_idx + 1,
                    !.writer = Append(pypdf.writer,
                                 FilteredPage(pypdf.pages[pypdf.page_idx],
                                   pypdf.watermark_list, pypdf.watermark_lowers))]
     \/ pypdf' = PypdfFailed
  /\ UNCHANGED <<streamVars, docVars, extract, detect, multi, toc, scan>>

\* writer.write(output_file); return True
PypdfWrite ==
  /\ pypdf.pc = "pages"
  /\ pypdf.page_idx > Len(pypdf.pages)
  /\ \/ pypdf' = [pypdf EXCEPT !.pc = "returned", !.result = "True",
                               !.written = pypdf.writer]
     \/ pypdf' = PypdfFailed
  /\ UNCHANGED <<streamVars, docVars, extract, detect, multi, toc, scan>>

PypdfNext ==
  \/ PypdfOpen
  \/ PypdfPage
  \/ PypdfWrite

SpecPypdf == PypdfInit /\ [][PypdfNext]_vars

(***************************************************************************)
(* The literal-string loop of extract_all_text_from_stream, one step per   *)
(* turn of its while loops.  i and j are the indices of the code (from 0): *)
(* the character at index i is stream[i + 1] here.                         *)
(***************************************************************************)
MaxScanLen == 5

ScanChars == {Ch("("), Ch(")"), Ch("\\"), Ch("n")}

ScanInit ==
  /\ StreamIdle
  /\ DocIdle
  /\ extract = Idle
  /\ detect = Idle
  /\ multi = Idle /\ toc = Idle /\ pypdf = Idle
  /\ \E s \in SeqsUpTo(ScanChars, MaxScanLen) :
        scan = [pc |-> "outer", stream |-> s, i |-> 0, j |-> 0,
                content |-> <<>>, all_text |-> <<>>]

\* while i < len(stream): a `(` opens the inner loop, anything else is
\* stepped over
ScanOuter ==
  /\ scan.pc = "outer"
  /\ scan.i < Len(scan.stream)
  /\ IF scan.stream[scan.i + 1] = Ch("(")
     THEN scan' = [scan EXCEPT !.pc = "inner", !.j = scan.i + 1,
                               !.content = <<>>]
     ELSE scan' = [scan EXCEPT !.i = scan.i + 1]
  /\ UNCHANGED <<streamVars, docVars, extract, detect, multi, toc, pypdf>>

\* One turn of `while j < len(stream)`
ScanInner ==
  /\ scan.pc = "inner"
  /\ scan.j < Len(scan.stream)
  /\ IF scan.stream[scan.j + 1] = Ch("\\") /\ scan.j + 1 < Len(scan.stream)
     THEN scan' = [scan EXCEPT !.j = scan.j + 2,
                     !.content = IF scan.stream[scan.j + 2] \in EscKept
                                 THEN Append(scan.content, scan.stream[scan.j + 2])
                                 ELSE scan.content]
     ELSE IF scan.stream[scan.j + 1] = Ch(")")
     THEN scan' = [scan EXCEPT !.pc = "outer", !.i = scan.j + 1,
                     !.all_text = Append(scan.all_text, scan.content)]
     ELSE scan' = [scan EXCEPT !.j = scan.j + 1,
                     !.content = Append(scan.content, scan.stream[scan.j + 1])]
  /\ UNCHANGED <<streamVars, docVars, extract, detect, multi, toc, pypdf>>

\* The else of the inner while with the index left where it was.
ScanUnclosed_Stay ==
  /\ scan.pc = "inner"
  /\ scan.j >= Len(scan.stream)
  /\ scan' = [scan EXCEPT !.pc = "outer"]
  /\ UNCHANGED <<streamVars, docVars, extract, detect, multi, toc, pypdf>>

\* The else of the inner while: the string was not closed, i += 1
ScanUnclosed ==
  /\ scan.pc = "inner"
  /\ scan.j >= Len(scan.stream)
  /\ scan' = [scan EXCEPT !.pc = "outer", !.i = scan.i + 1]
  /\ UNCHANGED <<streamVars, docVars, extract, detect, multi, toc, pypdf>>

\* The outer while ends
ScanEnd ==
  /\ scan.pc = "outer"
  /\ scan.i >= Len(scan.stream)
  /\ scan' = [scan EXCEPT !.pc = "done"]
  /\ UNCHANGED <<streamVars, docVars, extract, detect, multi, toc, pypdf>>

ScanNext ==
  \/ ScanOuter
  \/ ScanInner
  \/ ScanUnclosed
  \/ ScanEnd

SpecScan == ScanInit /\ [][ScanNext]_vars

\* The loops are sequential code: a step that can be taken is taken.
SpecScanLive == SpecScan /\ WF_vars(ScanNext)

(***************************************************************************)
(* Properties of the rewriting of one stream (SpecStream)                  *)
(***************************************************************************)
Rewritten == run = 1 /\ step \in {"inline", "updated", "unchanged"}

NeedlesSdSet == <<Txt(<<"s","d">>), Txt(<<"s","e","t">>)>>

\* The pieces of family f that are one text-showing invocation with a
\* literal string, an array or a hex string as operand.
InvocationPieces(f) == IF f = 1 THEN {3, 4, 5} ELSE IF f = 4 THEN {3, 4} ELSE {}

\* The invocation's own text contains a needle.
MatchingPiece(f, id) ==
  AnyNeedleIn(extract_all_text_from_stream(Families[f][id]), watermark_lowers)

RemoveAt(seq, k) == [i \in 1..(Len(seq) - 1) |-> IF i < k THEN seq[i] ELSE seq[i + 1]]

\* The buffer is one text object: the font operator, then invocations of
\* which exactly the k-th matches and at least one does not, then ET.
OneMatchInTextObject(k) ==
  /\ family \in {1, 4}
  /\ Len(tokens) >= 4
  /\ tokens[1] = 1
  /\ tokens[Len(tokens)] = 2
  /\ \A i \in 2..(Len(tokens) - 1) : tokens[i] \in InvocationPieces(family)
  /\ k \in 2..(Len(tokens) - 1)
  /\ \A i \in 2..(Len(tokens) - 1) :
        MatchingPiece(family, tokens[i]) <=> i = k

\* C1 as claimed: in a text object with one matching invocation and other
\* content, only the matching invocation is removed; the font operator and
\* the other invocations stay (BT /F Tf (H) Tj (SET) Tj ET becomes
\* BT /F Tf (H) Tj ET).
C1_OnlyMatchingInvocationRemoved ==
  \A k \in 1..Len(tokens) :
     (Rewritten /\ OneMatchInTextObject(k))
        => new_stream_text = BufferOf(family, RemoveAt(tokens, k))

\* No string of the text object holds the letters ET (piece 5 of the
\* operator pieces is (SET) Tj).
NoEtInStrings == family = 1 => \A i \in 1..Len(tokens) : tokens[i] # 5

\* BT /F Tf (H) Tj (SET) Tj ET
SecretScenario == family = 1 /\ tokens = <<1, 3, 5, 2>>
                  /\ watermark_lowers = NeedlesSdSet

\* C1 amended: a text object in which the letters ET occur only as its
\* closing operator and whose extracted text contains a needle is removed
\* whole, with its font operator and its non-matching invocations; in the scenario of the claim,
\* where the first ET after BT is the one inside (SET), only "(SET) Tj" is
\* removed and both spaces around it stay: BT /F Tf (H) Tj  ET.
C1_WholeTextObjectRemoved ==
  /\ \A k \in 1..Len(tokens) :
        (Rewritten /\ OneMatchInTextObject(k) /\ NoEtInStrings)
           => new_stream_text = <<>>
  /\ (Rewritten /\ SecretScenario)
        => new_stream_text =
             Txt(<<"B","T"," ","/","F"," ","T","f"," ",
                   "(","H",")"," ","T","j"," "," ","E","T">>)

\* BT /F Tf (H) Tj (SD) Tj ET has been rewritten to the empty stream.
C1_Witness ==
  /\ family = 1 /\ tokens = <<1, 3, 4, 2>> /\ watermark_lowers = NeedlesSdSet
  /\ run = 1 /\ step = "updated"
  /\ new_stream_bytes = <<>>

NeedlesJoined == <<Txt(<<"s"," ","d">>), Txt(<<"h"," ","s","d">>)>>

\* The buffer is one text object, BT /F Tf ... ET, of the invocations (H) Tj
\* and (SD) Tj, or a run of these invocations outside any text object.
PlainInvocation(id) == id \in {3, 4}

PlainTextObject ==
  /\ family = 1
  /\ Len(tokens) >= 2
  /\ tokens[1] = 1
  /\ tokens[Len(tokens)] = 2
  /\ \A i \in 2..(Len(tokens) - 1) : PlainInvocation(tokens[i])

BareInvocations ==
  /\ family = 1
  /\ \A i \in 1..Len(tokens) : PlainInvocation(tokens[i])

\* The lowercased text of the operand of (H) Tj and of (SD) Tj.
OwnText(id) == IF id = 3 THEN Txt(<<"h">>) ELSE Txt(<<"s","d">>)

OwnTextMatches(id) == AnyNeedleIn(OwnText(id), watermark_lowers)

KeptInvocation(id) == ~(PlainInvocation(id) /\ OwnTextMatches(id))

\* The buffer with each invocation whose own text matches cut out; the space
\* that ends its piece is no part of the invocation and stays.
OwnMatchesDeleted ==
  Flatten([i \in 1..Len(tokens) |->
             IF KeptInvocation(tokens[i]) THEN OperatorPieces[tokens[i]]
             ELSE <<32>>])

\* The own texts of the invocations tokens[from..to], a space between each two
RECURSIVE SpacedTexts(_, _)
SpacedTexts(from, to) ==
  IF from > to THEN <<>>
  ELSE IF from = to THEN OwnText(tokens[from])
  ELSE OwnText(tokens[from]) \o <<32>> \o SpacedTexts(from + 1, to)

C21_UnterminatedStringLeftUnmodified ==
  (Rewritten /\ family = 5 /\ \E i \in 1..Len(tokens) : tokens[i] = 3)
     => new_stream_text = original_stream

\* Where the k-th piece of the buffer begins.
PieceStart(k) == Len(BufferOf(family, SubSeq(tokens, 1, k - 1))) + 1

\* C23: in a buffer of the operator pieces, where the keyword BT is piece 1
\* and the keyword ET is piece 2, every text-object span begins at a BT
\* keyword and ends at an ET keyword, never at letters inside a string.
C23_SpansAtKeywordsOnly ==
  (Rewritten /\ family = 1)
     => \A n \in 1..Len(TextObjectMatchesFrom(original_stream, 1)) :
           LET m == TextObjectMatchesFrom(original_stream, 1)[n]
           IN  /\ \E k \in 1..Len(tokens) : tokens[k] = 1 /\ PieceStart(k) = m.bt
               /\ \E k \in 1..Len(tokens) : tokens[k] = 2 /\ PieceStart(k) = m.et

\* The buffer is made of the invocations (SD) Tj, (SD) ' and (SD) ".
ShowOperators == family = 5 /\ \A i \in 1..Len(tokens) : tokens[i] \in {4, 5, 6}

\* What is left of the k-th piece when its invocation is deleted: the space
\* that ends the piece (SD) Tj, nothing of the other two.
LeftOfPiece(id) == IF id = 4 THEN <<32>> ELSE <<>>

\* C24: with a needle in (SD), the invocations (SD) ' and (SD) " are deleted
\* as (SD) Tj is, whatever follows the operator.
C24_QuoteOperatorsDeleted ==
  (Rewritten /\ ShowOperators /\ watermark_lowers = NeedlesSdSet)
     => new_stream_text = Flatten([i \in 1..Len(tokens) |-> LeftOfPiece(tokens[i])])

\* The buffer is one text object, BT ... ET, of the invocations <73640> Tj
\* and <73 64> Tj, at least one of them.
HexTextObject ==
  /\ family = 6
  /\ Len(tokens) >= 3
  /\ tokens[1] = 1
  /\ tokens[Len(tokens)] = 2
  /\ \A i \in 2..(Len(tokens) - 1) : tokens[i] \in {3, 4}

\* C25: <73640> is read as 73 64 00 and <73 64> as 73 64, so with the needle
\* sd the text of the text object matches, as that of BT <7364> Tj ET does,
\* and the text object is removed.
C25_OddAndSpacedHexMatched ==
  (Rewritten /\ HexTextObject /\ watermark_lowers = NeedlesSdSet)
     => /\ AnyNeedleIn(extract_all_text_from_stream(original_stream),
                       watermark_lowers)
        /\ new_stream_text = <<>>

RECURSIVE IsSubsequence(_, _)
IsSubsequence(a, b) ==
  IF a = <<>> THEN TRUE
  ELSE IF b = <<>> THEN FALSE
  ELSE IF Head(a) = Head(b) THEN IsSubsequence(Tail(a), Tail(b))
  ELSE IsSubsequence(a, Tail(b))

\* C2 as claimed: the bytes written back are the original bytes with the
\* deleted ranges cut out: their number is the original number less the
\* number deleted (changes_made), and every byte kept has its value and its
\* relative position, also the bytes that are not UTF-8.
C2_BytesOutsideRangesPreserved ==
  step = "updated" =>
    /\ Len(new_stream_bytes) =
         Len(stream_bytes) - (Len(original_stream) - Len(new_stream_text))
    /\ IsSubsequence(new_stream_bytes, stream_bytes)

\* C3 as claimed: a second run on the stream the first run produced changes
\* nothing and writes nothing.
C3_SecondRunChangesNothing ==
  (run = 2 /\ step \in {"inline", "updated", "unchanged"})
     => (new_stream_text = original_stream /\ step # "updated")

\* C6 as claimed: (A (SD) C) Tj holds one literal string, A (SD) C, closed
\* by the parenthesis that returns the depth to zero.
C6_NestedLiteralIsOneString ==
  (family = 1 /\ tokens = <<6>> /\ step = "decoded")
     => LiteralStrings(original_stream, 1) =
          <<Txt(<<"A"," ","(","S","D",")"," ","C">>)>>

\* The decoding of escapes the claim states: \n \r \t \b \f are the control
\* bytes, any other escaped byte is that byte.
ClaimedEscape(c) ==
  CASE c = Ch("n") -> 10
    [] c = Ch("r") -> 13
    [] c = Ch("t") -> 9
    [] c = Ch("b") -> 8
    [] c = Ch("f") -> 12
    [] OTHER -> c

RECURSIVE ClaimedDecode(_, _)
ClaimedDecode(body, i) ==
  IF i > Len(body) THEN <<>>
  ELSE IF body[i] = Ch("\\") /\ i + 1 <= Len(body)
       THEN <<ClaimedEscape(body[i + 1])>> \o ClaimedDecode(body, i + 2)
       ELSE <<body[i]>> \o ClaimedDecode(body, i + 1)

\* The body of the literal spelled by lexical pieces (body ), where body is
\* made of backslashes, SD and n and every backslash escapes a byte of body.
RECURSIVE WellEscaped(_, _)
WellEscaped(body, i) ==
  IF i > Len(body) THEN TRUE
  ELSE IF body[i] = Ch("\\")
       THEN i + 1 <= Len(body) /\ WellEscaped(body, i + 2)
       ELSE WellEscaped(body, i + 1)

OneLiteral ==
  /\ family = 2
  /\ Len(tokens) >= 3
  /\ tokens[1] = 1
  /\ tokens[Len(tokens)] = 2
  /\ \A i \in 2..(Len(tokens) - 1) : tokens[i] \in {3, 4, 6}
  /\ WellEscaped(Slice(stream_bytes, 2, Len(stream_bytes) - 1), 1)

\* C7 as claimed: inside a literal string \n \r \t \b \f decode to their
\* control bytes and any other escaped byte (a backslash too) to itself.
C7_EscapesDecoded ==
  (OneLiteral /\ run = 1 /\ step = "decoded")
     => LiteralStrings(original_stream, 1) =
          <<ClaimedDecode(Slice(original_stream, 2, Len(original_stream) - 1), 1)>>

\* [(S) 5 (D)] TJ
SplitArray == Txt(<<"[","(","S",")"," ","5"," ","(","D",")","]"," ","T","J">>)

\* C8 as claimed: a TJ array whose strings spell the needle sd, split over
\* two elements, matches and is removed.
C8_SplitNeedleArrayRemoved ==
  (Rewritten /\ family = 4 /\ watermark_lowers = NeedlesSdSet)
     => ~Contains(new_stream_text, SplitArray)

(***************************************************************************)
(* Properties of a run on a document (Spec)                                *)
(***************************************************************************)
EventCount(e) == Cardinality({i \in 1..Len(events) : events[i] = e})

OpCount(op) == Cardinality({i \in 1..Len(events) : events[i].op = op})

Saved == EventCount(Event("save", "doc", 0)) > 0

\* C4: when no page's extracted text holds a needle, no stream is written
\* (no update_stream, no clean_contents), no annotation is deleted and the
\* number of edited streams is 0.
C4_NoMatchPassThrough ==
  (\A p \in Pages : ~page_has_text[p])
     => /\ OpCount("update_stream") = 0
        /\ OpCount("clean_contents") = 0
        /\ OpCount("delete_annot") = 0

\* A finished run with needles, on a document whose streams and annotations
\* hold the needles but whose page text does not: only the save happened.
C4_Witness ==
  /\ pc = "done" /\ result = TRUE
  /\ watermark_list # <<>>
  /\ \A p \in Pages : ~page_has_text[p]
  /\ contents[1] = TextObjectStream
  /\ forms[1] = InlineStream
  /\ annots[1] = <<NoteAnnot, WatermarkAnnot>>
  /\ unreadable = {}
  /\ OpCount("save") = 1
  /\ OpCount("update_stream") = 0

\* C5 as claimed: over a run each form XObject is written back at most once.
C5_FormEditedAtMostOnce ==
  \A x \in Xrefs : EventCount(Event("update_stream", "form", x)) <= 1

StreamWritten(sid) == EventCount(Event("update_stream", sid[1], sid[2])) > 0

C10_SavedRunSucceeds ==
  (pc = "done" /\ Saved) => result = TRUE

\* C11: after the verification of a run with needles, the list holds an
\* entry (page, needle) for exactly the pairs where the needle is a substring
\* of the lower-cased text of that page of the saved document.
C11_VerificationListExact ==
  verify_text # <<>> =>
    /\ \A p \in Pages : \A n \in 1..Len(watermark_lowers) :
          (\E i \in 1..Len(remaining_watermarks) :
              remaining_watermarks[i] = <<p, watermark_lowers[n]>>)
          <=> Contains(Lower(verify_text[p]), watermark_lowers[n])
    /\ \A i \in 1..Len(remaining_watermarks) :
          /\ remaining_watermarks[i][1] \in Pages
          /\ \E n \in 1..Len(watermark_lowers) :
                remaining_watermarks[i][2] = watermark_lowers[n]

\* The saved document holds SD on page 1 only: the list is (1, sd).
C11_Witness ==
  /\ pc = "done" /\ result = TRUE
  /\ verify_text = [p \in Pages |-> IF p = 1 THEN Txt(<<"a","S","D">>)
                                             ELSE Txt(<<"H">>)]
  /\ remaining_watermarks = << <<1, Txt(<<"s","d">>)>> >>
  /\ EventCount(Event("print", "warning", 0)) = 1

Returned == pc \in {"done", "exited"}

\* C12: with an empty (or absent) needle set no annotation is deleted and no
\* stream is written; unless opening or saving the document raises, the
\* document is saved and the run returns success (and when one of them
\* raises, nothing is saved and the run fails for that reason alone).
C12_EmptyNeedleSetPassThrough ==
  watermark_list = <<>> =>
    /\ OpCount("delete_annot") = 0
    /\ OpCount("update_stream") = 0
    /\ OpCount("clean_contents") = 0
    /\ Returned => IF faults = 0 THEN result = TRUE /\ Saved
                   ELSE result = FALSE /\ ~Saved
    /\ pc = "exited" /\ faults = 0 => exit_status = 0

\* A run without needles on a document that holds annotations and text
\* objects has saved it and exited with status 0.
C12_Witness ==
  /\ pc = "exited" /\ exit_status = 0 /\ result = TRUE
  /\ watermark_list = <<>> /\ watermark_lowers = <<>>
  /\ annots[1] = <<NoteAnnot, WatermarkAnnot>>
  /\ contents[1] = TextObjectStream
  /\ \A p \in Pages : page_has_text[p]
  /\ events = <<Event("save", "doc", 0), Event("print", "success", 0)>>

\* C13: a run in which the document was not saved (opening or saving it
\* raised) returns False, and the command then exits with status 1 without
\* printing the success message; it exits with 0 only after a True.
C13_IOFailureReachesCaller ==
  /\ (Returned /\ ~Saved) => result = FALSE
  /\ pc = "exited" =>
       /\ result = FALSE => (exit_status = 1
                             /\ EventCount(Event("print", "success", 0)) = 0)
       /\ exit_status = 0 => (result = TRUE /\ Saved)

\* fitz.open(pdf_path) raised: the command has exited with status 1.
C13_Witness ==
  /\ pc = "exited" /\ exit_status = 1 /\ result = FALSE
  /\ page_num = 0
  /\ events = <<Event("print", "error", 0), Event("print", "failed", 0)>>

\* The operations that change the document or write it out.
MutatingOps == {"update_stream", "delete_annot", "clean_contents", "save"}

\* C16: every update_stream and every annotation deletion comes before the
\* save; nothing is written, deleted or saved after the save, so the document
\* is saved at most once, and exactly once in a run that returns True; the
\* verification starts only after the save, and from the save on the
\* document is left as it is.
C16_WritesThenSaveThenVerify ==
  /\ [](/\ \A i \in 1..Len(events) : \A j \in (i + 1)..Len(events) :
              events[i].op = "save" => events[j].op \notin MutatingOps
        /\ pc = "verify" \/ verify_text # <<>> => OpCount("save") = 1
        /\ Returned /\ result = TRUE => OpCount("save") = 1)
  /\ [][Saved => /\ contents' = contents
                 /\ forms' = forms
                 /\ annots' = annots
                 /\ \A i \in (Len(events) + 1)..Len(events') :
                       events'[i].op \notin MutatingOps]_vars

\* A successful run that deleted an annotation, wrote a stream, saved and
\* verified.
C16_Witness ==
  /\ pc = "exited" /\ result = TRUE
  /\ OpCount("delete_annot") > 0
  /\ OpCount("update_stream") > 0
  /\ OpCount("save") = 1
  /\ verify_text # <<>>

\* C17: a page's content stream that the rewrite leaves equal to its decoded
\* original is not written during the run, neither by update_stream nor by
\* the normalisation page.clean_contents().
C17_UnchangedStreamNotWritten ==
  \A p \in Pages :
     LET original == Utf8DecodeIgnore(contents[p])
     IN  /\ pc # "idle"
         /\ EventCount(Event("update_stream", "page", p)) = 0
         /\ RewriteStream(original, watermark_lowers) = original
         => EventCount(Event("clean_contents", "page", p)) = 0

\* The form XObjects reachable from page p through its resource dictionary:
\* in the documents of the model only page 1 refers to forms.
PageForms(p) == IF p = 1 THEN Xrefs ELSE {}

\* C18: a form XObject is edited only while a page from which it is reachable
\* is being processed.
C18_OnlyReachableFormsEdited ==
  [][\A x \in Xrefs : forms'[x] # forms[x] => x \in PageForms(page_num)]_vars

\* The positions inside the loop over the pages.
PageLoop == {"page", "annots", "clean", "read", "xobjects", "rewrite"}

\* C20: a call that raises while a page is processed ends at most the
\* processing of that page: the run stays in the page loop, or leaves it for
\* the save when the page was the last one.
C20_StreamErrorsScoped ==
  [][(pc \in PageLoop /\ faults' > faults) => pc' \in PageLoop \cup {"save"}]_vars

\* The step rewrites the page's stream, or the form at xref_num, to
\* something else than it was.
PageStreamModified ==
  /\ pc = "rewrite"
  /\ RewriteStream(original_stream, watermark_lowers) # original_stream

FormStreamModified ==
  /\ pc = "xobjects"
  /\ xref_num <= NForms
  /\ <<"form", xref_num>> \notin unreadable
  /\ AnyNeedleIn(Lower(Latin1Decode(forms[xref_num])), watermark_lowers)
  /\ process_form_xobject(forms[xref_num], watermark_lowers)
       # Utf8DecodeIgnore(forms[xref_num])

\* C22: a modified stream is never silently left unwritten: the step that
\* modified it writes it back with update_stream, or the failure of the
\* write-back propagates and ends the run.
C22_ModifiedStreamWrittenOrFailure ==
  [][(PageStreamModified \/ FormStreamModified)
       => (OpCount("update_stream")' > OpCount("update_stream") \/ pc' = "done")]_vars

(***************************************************************************)
(* Properties of extract_pages.py (SpecExtract)                            *)
(***************************************************************************)
ValidRange ==
  /\ extract.parsed
  /\ extract.doc_len > 0
  /\ 1 <= extract.start_page
  /\ extract.start_page <= extract.end_page
  /\ extract.end_page <= extract.doc_len

\* C14: an output document is saved only for 1 <= start_page <= end_page <=
\* page count of a non-empty input, and it then holds exactly the pages
\* start_page..end_page; for any other range (or argument) the command exits
\* with status 1 and saves nothing.
C14_ExtractsExactRange ==
  /\ extract.pc # "idle" /\ extract.saved =>
       /\ ValidRange
       /\ Len(extract.output) = extract.end_page - extract.start_page + 1
       /\ \A i \in 1..Len(extract.output) :
             extract.output[i] = extract.start_page + i - 1
  /\ extract.pc = "exited" /\ ~ValidRange =>
       extract.status = 1 /\ ~extract.saved

\* "2-3" on a document of three pages: pages 2 and 3 are saved.
C14_Witness ==
  /\ extract.pc = "exited" /\ extract.status = 0 /\ extract.saved
  /\ extract.range_str = Txt(<<"2", "-", "3">>)
  /\ extract.doc_len = 3
  /\ extract.output = <<2, 3>>

(***************************************************************************)
(* Properties of detect_watermark_text (SpecDetect)                        *)
(***************************************************************************)
\* The sampled pages on which some line holds the text.
PagesShowing(text) ==
  {p \in 1..detect.pages_to_check :
     \E k \in 1..Len(detect.doc[p]) : Contains(detect.doc[p][k], text)}

\* C15: a text is returned only if it appears on at least two of the sampled
\* pages; a line seen on one page only is never returned.
C15_DetectedTextOnSeveralPages ==
  detect.pc = "returned" /\ detect.found =>
     Cardinality(PagesShowing(detect.text)) >= 2

C27_OutlinePagesNonDecreasing ==
  toc.pc = "returned" /\ toc.returned > 0 =>
     \A i \in 1..Len(toc.outline) : \A j \in i..Len(toc.outline) :
        toc.outline[i].page <= toc.outline[j].page

\* C28: a run that extracted at least one entry, and in which no call into
\* the library raised, has added the bookmarks and saved the document, and
\* exits without an error, whatever the number of the entries.
C28_ExtractedEntriesAreSaved ==
  (toc.pc = "exited" /\ toc.toc_entries # <<>> /\ ~toc.raised)
     => (toc.status = 0 /\ toc.saved /\ toc.bookmarks_added >= 0)

(***************************************************************************)
(* Properties of remove_watermark_pypdf (SpecPypdf)                        *)
(***************************************************************************)
\* The annotation stays: it cannot be read, or there is no needle, or
\* neither its /Contents nor its /T holds a needle in any case of letters.
StaysOnPage(a) ==
  \/ ~a.readable
  \/ pypdf.watermark_list = <<>>
  \/ \A n \in 1..Len(pypdf.watermark_list) :
        /\ ~Contains(Lower(a.content), Lower(pypdf.watermark_list[n]))
        /\ ~Contains(Lower(a.title), Lower(pypdf.watermark_list[n]))

PypdfDone == pypdf.pc = "returned" /\ pypdf.result = "True"

\* Every input page is written in order, with the annotations that stay in
\* their order.
PagesAndAnnotationsKept ==
  /\ Len(pypdf.written) = Len(pypdf.pages)
  /\ \A p \in 1..Len(pypdf.pages) :
        pypdf.written[p].annots = SelectSeq(pypdf.pages[p].annots, StaysOnPage)

\* C29 as claimed: the pages are written in order with the annotations that
\* stay, and a page of which no annotation remains has no /Annots entry.
C29_AnnotsRemovedWhenNoneRemain ==
  PypdfDone =>
     /\ PagesAndAnnotationsKept
     /\ \A p \in 1..Len(pypdf.pages) :
           pypdf.written[p].has_annots <=> pypdf.written[p].annots # <<>>

\* C29 amended: the pages are written in order with the annotations that
\* stay; the /Annots entry is removed from a page that had annotations of
\* which none remains, and a page whose /Annots is an empty array keeps it.
C29_OnlyAnnotationListsChange ==
  PypdfDone =>
     /\ PagesAndAnnotationsKept
     /\ \A p \in 1..Len(pypdf.pages) :
           pypdf.written[p].has_annots <=>
              /\ pypdf.pages[p].has_annots
              /\ (pypdf.pages[p].annots = <<>> \/ pypdf.written[p].annots # <<>>)

\* A page with a titled, a plain and an unreadable annotation loses the
\* titled one; a page with two matching annotations loses its /Annots.
C29_Witness ==
  /\ PypdfDone
  /\ pypdf.watermark_list # <<>>
  /\ pypdf.pages = <<PdfPage(TRUE, <<TitledAnnot, PlainAnnot, BrokenAnnot>>),
                     PdfPage(TRUE, <<StampAnnot, TitledAnnot>>)>>
  /\ pypdf.written = <<PdfPage(TRUE, <<PlainAnnot, BrokenAnnot>>),
                       PdfPage(FALSE, <<>>)>>

(***************************************************************************)
(* Properties of the literal-string loop (SpecScanLive)                    *)
(***************************************************************************)
\* A turn of the outer loop ends: the step goes back to the loop test.
OuterTurnEnds ==
  /\ scan.pc \in {"outer", "inner"}
  /\ scan'.pc = "outer"

\* The strings collected step by step are those of the loop as a function.
ScanCollectsLiteralStrings ==
  scan.pc = "done" => scan.all_text = LiteralStrings(scan.stream, 1)

\* C30: on every buffer the literal-string loop terminates: each turn of the
\* outer loop ends with a greater outer index, and the outer index never
\* exceeds the length of the buffer.
C30_ScannerTerminates ==
  /\ [][OuterTurnEnds => scan'.i > scan.i]_vars
  /\ [](scan.i <= Len(scan.stream))
  /\ <>(scan.pc = "done")

\* The loop has ended on a buffer of two unclosed `(` and a last backslash.
C30_Witness ==
  /\ scan.pc = "done"
  /\ scan.stream = <<Ch("("), Ch("("), Ch("\\")>>
  /\ scan.i = Len(scan.stream)
  /\ scan.all_text = <<>>

====
